---------------------------- MODULE Spec2Model ----------------------------
(***************************************************************************)
(* Workflow engine of the 1040NR tax filing assistant (src/process.py):    *)
(* TaxProcessingWorkflow walks one user through a persisted, ordered       *)
(* question catalog.  Every call loads questions_<user>.json and           *)
(* progress_<user>.json, possibly asks the classifier                      *)
(* (validation_identification) and the answering agent (ask_question),     *)
(* and writes progress_<user>.json back.  Further sections model the       *)
(* session memory kept in Redis by src/client.py (SpecMemory) and          *)
(* overlapping requests of one user (SpecConcurrent).                      *)
(*                                                                         *)
(* Conventions                                                             *)
(*   - a JSON file is a sequence of length 0 (file absent) or 1 (its       *)
(*     decoded content);                                                   *)
(*   - list indices are Python's (0-based); questions[i] of the source is  *)
(*     At(questions, i) here;                                              *)
(*   - the key "question_<i>" of progress["answers"] is the index i of the *)
(*     function answers;                                                   *)
(*   - wall-clock fields (generated_at, last_updated, timestamp) and the   *)
(*     constant "message" texts carry no control flow and are left out of  *)
(*     the records;                                                        *)
(*   - an exception leaving a method is the result                         *)
(*     [status |-> "exception", raised_by |-> ...].                        *)
(***************************************************************************)
EXTENDS Integers, Sequences, FiniteSets, TLC

\* Largest catalog the question generator returns in the explored runs.
MaxN == 3

\* In the runs that include the generator's timeout (an 18-question fallback
\* catalog), calls are made while the cursor is below MaxWalk.
MaxWalk == 2

\* Texts the generator can produce, in catalog order.
QuestionPool == <<"Q0", "Q1", "Q2", "Q3", "Q4", "Q5">>

\* Texts the user can send as human_response.
HumanReplies == {"H1", "H2"}

\* Texts the answering agent can return.
Replies == {"R1", "R2"}

VARIABLES
    questions_file,   \* questions_<user_id>.json
    progress_file,    \* progress_<user_id>.json
    call,             \* the method last called and its argument
    trace,            \* collaborator calls and file writes of that call, in order
    result,           \* what that call returned (or that it raised)
    conversation,     \* the Redis key conversation:<user_id> (src/client.py)
    inflight,         \* the requests of the user being served, one per task
    database,         \* the MySQL tables behind the field-store tools
    tenants,          \* several users side by side: files by path, Redis by key
    singleton         \* _mcp_client, _agent, _client_lock and the tasks calling
                      \* get_or_create_agent (src/client.py)

vars == <<questions_file, progress_file, call, trace, result, conversation, inflight,
         database, tenants, singleton>>

----------------------------------------------------------------------------
(* Python helpers *)

\* seq[i] with a 0-based index
At(seq, i) == seq[i + 1]

\* x in list
InList(x, seq) == \E k \in 1..Len(seq) : seq[k] = x

\* {} : the dict with no key
EmptyDict == [k \in {} |-> k]

\* d[k] = v on a dict
DictSet(d, k, v) == [x \in (DOMAIN d) \cup {k} |-> IF x = k THEN v ELSE d[x]]

\* marker of a key that is missing from a dict
Absent == "<absent>"

\* d.get("last_ai_response", "")
GetLastAiResponse(progress) ==
    IF progress.last_ai_response = Absent THEN "" ELSE progress.last_ai_response

\* an Optional[bool] as it appears in a result
PyNone == "None"
PyBool(b) == IF b THEN "True" ELSE "False"

----------------------------------------------------------------------------
(* Collaborators: their possible outcomes *)

\* generate_questions: the model's list (any length up to MaxN), the
\* 25 s timeout, or any other exception of the model call
GenOk(n) == [kind |-> "ok", list |-> SubSeq(QuestionPool, 1, n)]
GenTimeout == [kind |-> "timeout", list |-> <<>>]
GenError == [kind |-> "error", list |-> <<>>]
GenOutcomes == {GenOk(n) : n \in 0..MaxN} \cup {GenError}

\* validation_identification: a verdict, or an exception
Verdict(t, u) == [raised |-> FALSE, is_tax_related |-> t, validation_indenty |-> u]
ClassifierRaises == [raised |-> TRUE, is_tax_related |-> FALSE, validation_indenty |-> FALSE]
ClassifierOutcomes == {Verdict(t, u) : t \in BOOLEAN, u \in BOOLEAN} \cup {ClassifierRaises}

\* ask_question: a reply, or an exception
AgentReply(r) == [raised |-> FALSE, reply |-> r]
AgentRaises == [raised |-> TRUE, reply |-> ""]
AgentOutcomes == {AgentReply(r) : r \in Replies} \cup {AgentRaises}

generate_fallback_questions ==
    [question |-> <<"F0", "F1", "F2", "F3", "F4", "F5", "F6", "F7", "F8",
                    "F9", "F10", "F11", "F12", "F13", "F14", "F15", "F16",
                    "F17">>]

generate_questions(g) ==
    IF g.kind = "timeout" THEN generate_fallback_questions
    ELSE [question |-> g.list]

----------------------------------------------------------------------------
(* Events of a call *)

\* the generator call and how it ended ("ok", "timeout", "error")
EvGenerate(g) == [ev |-> "generate_questions", ret |-> g.kind]
EvSaveQuestions == [ev |-> "save_questions"]
\* save_progress(progress_data): the dict the method holds when it saves
EvSaveProgress(progress_data) ==
    [ev |-> "save_progress", progress_data |-> progress_data]
\* a collaborator call: its arguments and what came back (ret)
EvClassify(q, ai, h, v) ==
    [ev |-> "validation_identification", Question |-> q,
     AI_agent_rsponce |-> ai, human_responce |-> h, ret |-> v]
EvAsk(q, a) == [ev |-> "ask_question", question |-> q, ret |-> a]

Raised(by) == [status |-> "exception", raised_by |-> by]

----------------------------------------------------------------------------
(* TaxProcessingWorkflow *)

\* Mutant of initialize_questions: the existing file is not looked for.
initialize_questions_Regenerates(qf, g) ==
    IF g.kind = "error" THEN
        [raised |-> TRUE, qf |-> qf, data |-> [questions |-> <<>>, total_questions |-> 0],
         tr |-> <<EvGenerate(g)>>]
    ELSE
        LET questions_data == generate_questions(g)
            structured_questions ==
                [questions |-> questions_data.question,
                 total_questions |-> Len(questions_data.question)]
        IN  [raised |-> FALSE, qf |-> <<structured_questions>>,
             data |-> structured_questions,
             tr |-> <<EvGenerate(g), EvSaveQuestions>>]

initialize_questions(qf, g) ==
    IF qf = <<>> THEN
        IF g.kind = "error" THEN
            [raised |-> TRUE, qf |-> qf, data |-> [questions |-> <<>>, total_questions |-> 0],
             tr |-> <<EvGenerate(g)>>]
        ELSE
            LET questions_data == generate_questions(g)
                structured_questions ==
                    [questions |-> questions_data.question,
                     total_questions |-> Len(questions_data.question)]
            IN  [raised |-> FALSE, qf |-> <<structured_questions>>,
                 data |-> structured_questions,
                 tr |-> <<EvGenerate(g), EvSaveQuestions>>]
    ELSE
        [raised |-> FALSE, qf |-> qf, data |-> qf[1], tr |-> <<>>]

\* JSON values as json.dump writes them: each carries its JSON type.
JsonNumber(n) == [json |-> "number", v |-> n]
JsonString(x) == [json |-> "string", v |-> x]
JsonBool(b) == [json |-> "boolean", v |-> b]
JsonArray(items) == [json |-> "array", v |-> items]
JsonObject(members) == [json |-> "object", v |-> members]

\* one entry of progress["answers"] as a JSON object
JsonAnswer(answer) ==
    JsonObject([question |-> JsonString(answer.question),
                ai_response |-> JsonString(answer.ai_response),
                human_response |-> JsonString(answer.human_response),
                wants_update |-> JsonBool(answer.wants_update)])

\* the members every Progress dict has
JsonProgressMembers(progress_data) ==
    [current_question_index |-> JsonNumber(progress_data.current_question_index),
     completed_questions |->
        JsonArray([k \in 1..Len(progress_data.completed_questions) |->
                      JsonNumber(progress_data.completed_questions[k])]),
     answers |->
        JsonObject([i \in DOMAIN progress_data.answers |->
                       JsonAnswer(progress_data.answers[i])])]

\* Mutant of json_dump: a dict without "last_ai_response" is written with
\* the member set to the empty string.
json_dump_DefaultsReply(progress_data) ==
    JsonObject([m \in {"current_question_index", "completed_questions", "answers",
                       "last_ai_response"} |->
                   IF m = "last_ai_response"
                   THEN JsonString(GetLastAiResponse(progress_data))
                   ELSE JsonProgressMembers(progress_data)[m]])

\* json.dump(progress_data, f, ...) of process.py 73-74: a member per key of
\* the dict; a key the dict does not have is not written
json_dump(progress_data) ==
    JsonObject([m \in {"current_question_index", "completed_questions", "answers"}
                      \cup (IF progress_data.last_ai_response = Absent THEN {}
                            ELSE {"last_ai_response"}) |->
                   IF m = "last_ai_response"
                   THEN JsonString(progress_data.last_ai_response)
                   ELSE JsonProgressMembers(progress_data)[m]])

\* json.load(f) of process.py 59-60
json_load(doc) ==
    [current_question_index |-> doc.v["current_question_index"].v,
     completed_questions |->
        [k \in 1..Len(doc.v["completed_questions"].v) |->
            doc.v["completed_questions"].v[k].v],
     answers |->
        [i \in DOMAIN doc.v["answers"].v |->
            LET answer == doc.v["answers"].v[i].v
            IN  [question |-> answer.question.v,
                 ai_response |-> answer.ai_response.v,
                 human_response |-> answer.human_response.v,
                 wants_update |-> answer.wants_update.v]],
     last_ai_response |->
        IF "last_ai_response" \in DOMAIN doc.v THEN doc.v["last_ai_response"].v
        ELSE Absent]

load_progress(pf) ==
    IF pf # <<>> THEN json_load(pf[1])
    ELSE [current_question_index |-> 0,
          completed_questions |-> <<>>,
          answers |-> EmptyDict,
          last_ai_response |-> Absent]

save_progress(progress_data) == <<json_dump(progress_data)>>

\* Mutant of MarkCompleted: the index is never appended.
MarkCompleted_Never(progress, idx) == progress

\* if idx not in progress["completed_questions"]: append(idx)
MarkCompleted(progress, idx) ==
    IF InList(idx, progress.completed_questions) THEN progress
    ELSE [progress EXCEPT !.completed_questions = Append(@, idx)]

\* progress["answers"][f"question_{idx}"] = {...}
RecordAnswer(progress, idx, q, ai, h, wu) ==
    [progress EXCEPT !.answers =
        DictSet(@, idx, [question |-> q, ai_response |-> ai,
                         human_response |-> h, wants_update |-> wu])]

\* Mutant of AdvanceAfterServe: the cursor is not incremented.
AdvanceAfterServe_KeepsCursor(progress, ai_response, current_index) ==
    [progress EXCEPT !.last_ai_response = ai_response]

\* progress["last_ai_response"] = ai_response;
\* progress["current_question_index"] = current_index + 1   (process.py 223-224)
AdvanceAfterServe(progress, ai_response, current_index) ==
    [progress EXCEPT !.last_ai_response = ai_response,
                     !.current_question_index = current_index + 1]

\* Mutant of AdvanceAfterStart: the cursor is not incremented.
AdvanceAfterStart_KeepsCursor(progress, ai_response, current_index) ==
    [progress EXCEPT !.last_ai_response = ai_response]

\* the same two assignments in start_workflow (process.py 272-273)
AdvanceAfterStart(progress, ai_response, current_index) ==
    [progress EXCEPT !.last_ai_response = ai_response,
                     !.current_question_index = current_index + 1]

\* Mutant of is_last_question: the last question is treated like any other.
is_last_question_Never(current_index, questions) == FALSE

\* is_last_question = (current_index == len(questions))
is_last_question(current_index, questions) == current_index = Len(questions)

\* Mutant of StartCompleted: the early return saves the loaded Progress.
StartCompleted_Saves(qf, progress, questions, tr) ==
    [qf |-> qf, pf |-> save_progress(progress),
     result |-> [status |-> "completed",
                 total_questions |-> Len(questions),
                 completed_questions |-> Len(progress.completed_questions)],
     tr |-> Append(tr, EvSaveProgress(progress))]

\* start_workflow's early return (process.py 251-257): nothing is asked or saved
StartCompleted(qf, progress, questions, tr) ==
    [qf |-> qf, pf |-> <<>>,
     result |-> [status |-> "completed",
                 total_questions |-> Len(questions),
                 completed_questions |-> Len(progress.completed_questions)],
     tr |-> tr]

\* Mutant of ServeNext: the Progress built so far is written even when the
\* agent raises.
ServeNext_SavesThenRaises(qf, progress, questions, current_index, validation_wants_update, a, tr) ==
    IF current_index >= Len(questions) THEN
        [qf |-> qf, pf |-> save_progress(progress),
         result |-> [status |-> "completed",
                     total_questions |-> Len(questions),
                     completed_questions |-> Len(progress.completed_questions)],
         tr |-> Append(tr, EvSaveProgress(progress))]
    ELSE
        LET current_question == At(questions, current_index)
            tr1 == Append(tr, EvAsk(current_question, a))
        IN  IF a.raised THEN
                [qf |-> qf, pf |-> save_progress(progress),
                 result |-> Raised("ask_question"), tr |-> tr1]
            ELSE
                LET p1 == AdvanceAfterServe(progress, a.reply, current_index)
                IN  [qf |-> qf, pf |-> save_progress(p1),
                     result |-> [status |-> "in_progress",
                                 question_number |-> current_index + 1,
                                 total_questions |-> Len(questions),
                                 question |-> current_question,
                                 ai_response |-> a.reply,
                                 completed |-> Len(p1.completed_questions),
                                 validation_result |-> validation_wants_update],
                     tr |-> Append(tr1, EvSaveProgress(p1))]

\* process.py 200-235: serve questions[current_index] (or report completion)
ServeNext(qf, progress, questions, current_index, validation_wants_update, a, tr) ==
    IF current_index >= Len(questions) THEN
        [qf |-> qf, pf |-> save_progress(progress),
         result |-> [status |-> "completed",
                     total_questions |-> Len(questions),
                     completed_questions |-> Len(progress.completed_questions)],
         tr |-> Append(tr, EvSaveProgress(progress))]
    ELSE
        LET current_question == At(questions, current_index)
            tr1 == Append(tr, EvAsk(current_question, a))
        IN  IF a.raised THEN
                [qf |-> qf, pf |-> <<>>, result |-> Raised("ask_question"), tr |-> tr1]
            ELSE
                LET p1 == AdvanceAfterServe(progress, a.reply, current_index)
                IN  [qf |-> qf, pf |-> save_progress(p1),
                     result |-> [status |-> "in_progress",
                                 question_number |-> current_index + 1,
                                 total_questions |-> Len(questions),
                                 question |-> current_question,
                                 ai_response |-> a.reply,
                                 completed |-> Len(p1.completed_questions),
                                 validation_result |-> validation_wants_update],
                     tr |-> Append(tr1, EvSaveProgress(p1))]

\* Mutant of TerminalBranch: the cursor is incremented as in the other branches.
TerminalBranch_Advances(qf, progress, questions, current_index, human_response, a, tr) ==
    LET prev_question == At(questions, current_index - 1)
        prev_ai_response == GetLastAiResponse(progress)
        p1 == RecordAnswer(progress, current_index - 1, prev_question,
                           prev_ai_response, human_response, FALSE)
        p2 == MarkCompleted(p1, current_index - 1)
        tr1 == Append(tr, EvAsk(human_response, a))
    IN  IF a.raised THEN
            [qf |-> qf, pf |-> <<>>, result |-> Raised("ask_question"), tr |-> tr1]
        ELSE
            LET p3 == [p2 EXCEPT !.last_ai_response = a.reply,
                                 !.current_question_index = current_index + 1]
            IN  [qf |-> qf, pf |-> save_progress(p3),
                 result |-> [status |-> "completed",
                             total_questions |-> Len(questions),
                             completed_questions |-> Len(p3.completed_questions),
                             final_response |-> a.reply],
                 tr |-> Append(tr1, EvSaveProgress(p3))]

\* Mutant of TerminalBranch: the last question is not marked completed.
TerminalBranch_NotCompleted(qf, progress, questions, current_index, human_response, a, tr) ==
    LET prev_question == At(questions, current_index - 1)
        prev_ai_response == GetLastAiResponse(progress)
        p1 == RecordAnswer(progress, current_index - 1, prev_question,
                           prev_ai_response, human_response, FALSE)
        tr1 == Append(tr, EvAsk(human_response, a))
    IN  IF a.raised THEN
            [qf |-> qf, pf |-> <<>>, result |-> Raised("ask_question"), tr |-> tr1]
        ELSE
            LET p3 == [p1 EXCEPT !.last_ai_response = a.reply]
            IN  [qf |-> qf, pf |-> save_progress(p3),
                 result |-> [status |-> "completed",
                             total_questions |-> Len(questions),
                             completed_questions |-> Len(p3.completed_questions),
                             final_response |-> a.reply],
                 tr |-> Append(tr1, EvSaveProgress(p3))]

\* Mutant of TerminalBranch: the reply to the last question is answered like
\* any other, with an in_progress result that names the next question.
TerminalBranch_ReportsNext(qf, progress, questions, current_index, human_response, a, tr) ==
    LET prev_question == At(questions, current_index - 1)
        prev_ai_response == GetLastAiResponse(progress)
        p1 == RecordAnswer(progress, current_index - 1, prev_question,
                           prev_ai_response, human_response, FALSE)
        p2 == MarkCompleted(p1, current_index - 1)
        tr1 == Append(tr, EvAsk(human_response, a))
    IN  IF a.raised THEN
            [qf |-> qf, pf |-> <<>>, result |-> Raised("ask_question"), tr |-> tr1]
        ELSE
            LET p3 == [p2 EXCEPT !.last_ai_response = a.reply]
            IN  [qf |-> qf, pf |-> save_progress(p3),
                 result |-> [status |-> "in_progress",
                             question_number |-> current_index + 1,
                             total_questions |-> Len(questions),
                             question |-> human_response,
                             ai_response |-> a.reply,
                             completed |-> Len(p3.completed_questions),
                             validation_result |-> PyNone],
                 tr |-> Append(tr1, EvSaveProgress(p3))]

\* Mutant of TerminalBranch: the result reports every question as completed.
TerminalBranch_ReportsAll(qf, progress, questions, current_index, human_response, a, tr) ==
    LET prev_question == At(questions, current_index - 1)
        prev_ai_response == GetLastAiResponse(progress)
        p1 == RecordAnswer(progress, current_index - 1, prev_question,
                           prev_ai_response, human_response, FALSE)
        p2 == MarkCompleted(p1, current_index - 1)
        tr1 == Append(tr, EvAsk(human_response, a))
    IN  IF a.raised THEN
            [qf |-> qf, pf |-> <<>>, result |-> Raised("ask_question"), tr |-> tr1]
        ELSE
            LET p3 == [p2 EXCEPT !.last_ai_response = a.reply]
            IN  [qf |-> qf, pf |-> save_progress(p3),
                 result |-> [status |-> "completed",
                             total_questions |-> Len(questions),
                             completed_questions |-> Len(questions),
                             final_response |-> a.reply],
                 tr |-> Append(tr1, EvSaveProgress(p3))]

\* process.py 105-143: the reply to the last question
TerminalBranch(qf, progress, questions, current_index, human_response, a, tr) ==
    LET prev_question == At(questions, current_index - 1)
        prev_ai_response == GetLastAiResponse(progress)
        p1 == RecordAnswer(progress, current_index - 1, prev_question,
                           prev_ai_response, human_response, FALSE)
        p2 == MarkCompleted(p1, current_index - 1)
        tr1 == Append(tr, EvAsk(human_response, a))
    IN  IF a.raised THEN
            [qf |-> qf, pf |-> <<>>, result |-> Raised("ask_question"), tr |-> tr1]
        ELSE
            LET p3 == [p2 EXCEPT !.last_ai_response = a.reply]
            IN  [qf |-> qf, pf |-> save_progress(p3),
                 result |-> [status |-> "completed",
                             total_questions |-> Len(questions),
                             completed_questions |-> Len(p3.completed_questions),
                             final_response |-> a.reply],
                 tr |-> Append(tr1, EvSaveProgress(p3))]

\* Mutant of UpdateBranch: the cursor moves on although the user asked for a change.
UpdateBranch_Advances(qf, progress, questions, current_index, human_response, a, tr) ==
    LET tr1 == Append(tr, EvAsk(human_response, a))
    IN  IF a.raised THEN
            [qf |-> qf, pf |-> <<>>, result |-> Raised("ask_question"), tr |-> tr1]
        ELSE
            LET p1 == [progress EXCEPT !.last_ai_response = a.reply,
                                       !.current_question_index = current_index + 1]
            IN  [qf |-> qf, pf |-> save_progress(p1),
                 result |-> [status |-> "in_progress",
                             question_number |-> current_index,
                             total_questions |-> Len(questions),
                             question |-> human_response,
                             ai_response |-> a.reply,
                             completed |-> Len(p1.completed_questions),
                             validation_result |-> PyBool(TRUE)],
                 tr |-> Append(tr1, EvSaveProgress(p1))]

\* Mutant of UpdateBranch: the cursor steps back to the question being corrected.
UpdateBranch_StepsBack(qf, progress, questions, current_index, human_response, a, tr) ==
    LET tr1 == Append(tr, EvAsk(human_response, a))
    IN  IF a.raised THEN
            [qf |-> qf, pf |-> <<>>, result |-> Raised("ask_question"), tr |-> tr1]
        ELSE
            LET p1 == [progress EXCEPT !.last_ai_response = a.reply,
                                       !.current_question_index = current_index - 1]
            IN  [qf |-> qf, pf |-> save_progress(p1),
                 result |-> [status |-> "in_progress",
                             question_number |-> current_index,
                             total_questions |-> Len(questions),
                             question |-> human_response,
                             ai_response |-> a.reply,
                             completed |-> Len(p1.completed_questions),
                             validation_result |-> PyBool(TRUE)],
                 tr |-> Append(tr1, EvSaveProgress(p1))]

\* Mutant of UpdateBranch: the catalog question is asked again instead of the
\* user's correction.
UpdateBranch_AsksCatalog(qf, progress, questions, current_index, human_response, a, tr) ==
    LET prev_question == At(questions, current_index - 1)
        tr1 == Append(tr, EvAsk(prev_question, a))
    IN  IF a.raised THEN
            [qf |-> qf, pf |-> <<>>, result |-> Raised("ask_question"), tr |-> tr1]
        ELSE
            LET p1 == [progress EXCEPT !.last_ai_response = a.reply]
            IN  [qf |-> qf, pf |-> save_progress(p1),
                 result |-> [status |-> "in_progress",
                             question_number |-> current_index,
                             total_questions |-> Len(questions),
                             question |-> prev_question,
                             ai_response |-> a.reply,
                             completed |-> Len(p1.completed_questions),
                             validation_result |-> PyBool(TRUE)],
                 tr |-> Append(tr1, EvSaveProgress(p1))]

\* Mutant of UpdateBranch: the answer record is saved before the agent is
\* asked, and the reply is saved after it.
UpdateBranch_SavesAnswerFirst(qf, progress, questions, current_index, human_response, a, tr) ==
    LET tr1 == Append(Append(tr, EvSaveProgress(progress)), EvAsk(human_response, a))
    IN  IF a.raised THEN
            [qf |-> qf, pf |-> save_progress(progress),
             result |-> Raised("ask_question"), tr |-> tr1]
        ELSE
            LET p1 == [progress EXCEPT !.last_ai_response = a.reply]
            IN  [qf |-> qf, pf |-> save_progress(p1),
                 result |-> [status |-> "in_progress",
                             question_number |-> current_index,
                             total_questions |-> Len(questions),
                             question |-> human_response,
                             ai_response |-> a.reply,
                             completed |-> Len(p1.completed_questions),
                             validation_result |-> PyBool(TRUE)],
                 tr |-> Append(tr1, EvSaveProgress(p1))]

\* process.py 169-192: the user wants to change the stored value
UpdateBranch(qf, progress, questions, current_index, human_response, a, tr) ==
    LET tr1 == Append(tr, EvAsk(human_response, a))
    IN  IF a.raised THEN
            [qf |-> qf, pf |-> <<>>, result |-> Raised("ask_question"), tr |-> tr1]
        ELSE
            LET p1 == [progress EXCEPT !.last_ai_response = a.reply]
            IN  [qf |-> qf, pf |-> save_progress(p1),
                 result |-> [status |-> "in_progress",
                             question_number |-> current_index,
                             total_questions |-> Len(questions),
                             question |-> human_response,
                             ai_response |-> a.reply,
                             completed |-> Len(p1.completed_questions),
                             validation_result |-> PyBool(TRUE)],
                 tr |-> Append(tr1, EvSaveProgress(p1))]

\* Mutant of NormalBranch: the question is marked completed before the
\* verdict is looked at.
NormalBranch_AlwaysCompletes(qf, progress, questions, current_index, human_response, v, a, tr) ==
    LET prev_question == At(questions, current_index - 1)
        prev_ai_response == GetLastAiResponse(progress)
        tr1 == Append(tr, EvClassify(prev_question, prev_ai_response, human_response, v))
    IN  IF v.raised THEN
            [qf |-> qf, pf |-> <<>>, result |-> Raised("validation_identification"),
             tr |-> tr1]
        ELSE
            LET wants_to_update == v.validation_indenty
                p1 == RecordAnswer(progress, current_index - 1, prev_question,
                                   prev_ai_response, human_response, wants_to_update)
                p2 == MarkCompleted(p1, current_index - 1)
            IN  IF wants_to_update THEN
                    UpdateBranch(qf, p2, questions, current_index, human_response, a, tr1)
                ELSE
                    ServeNext(qf, p2, questions, p2.current_question_index,
                              PyBool(wants_to_update), a, tr1)

\* Mutant of NormalBranch: one correction per question; a second
\* wants-update verdict on the same question is taken as a confirmation.
NormalBranch_CapsUpdates(qf, progress, questions, current_index, human_response, v, a, tr) ==
    LET prev_question == At(questions, current_index - 1)
        prev_ai_response == GetLastAiResponse(progress)
        tr1 == Append(tr, EvClassify(prev_question, prev_ai_response, human_response, v))
    IN  IF v.raised THEN
            [qf |-> qf, pf |-> <<>>, result |-> Raised("validation_identification"),
             tr |-> tr1]
        ELSE
            LET corrected_before ==
                    /\ (current_index - 1) \in DOMAIN progress.answers
                    /\ progress.answers[current_index - 1].wants_update
                wants_to_update == v.validation_indenty /\ ~corrected_before
                p1 == RecordAnswer(progress, current_index - 1, prev_question,
                                   prev_ai_response, human_response, wants_to_update)
            IN  IF wants_to_update THEN
                    UpdateBranch(qf, p1, questions, current_index, human_response, a, tr1)
                ELSE
                    LET p2 == MarkCompleted(p1, current_index - 1)
                    IN  ServeNext(qf, p2, questions, p2.current_question_index,
                                  PyBool(wants_to_update), a, tr1)

\* Mutant of NormalBranch: once a correction of the question is on record,
\* the classifier is given the reply to the catalog question kept with it.
NormalBranch_ClassifiesFirstReply(qf, progress, questions, current_index, human_response, v, a, tr) ==
    LET prev_question == At(questions, current_index - 1)
        prev_ai_response ==
            IF (current_index - 1) \in DOMAIN progress.answers
            THEN progress.answers[current_index - 1].ai_response
            ELSE GetLastAiResponse(progress)
        tr1 == Append(tr, EvClassify(prev_question, prev_ai_response, human_response, v))
    IN  IF v.raised THEN
            [qf |-> qf, pf |-> <<>>, result |-> Raised("validation_identification"),
             tr |-> tr1]
        ELSE
            LET wants_to_update == v.validation_indenty
                p1 == RecordAnswer(progress, current_index - 1, prev_question,
                                   GetLastAiResponse(progress), human_response,
                                   wants_to_update)
            IN  IF wants_to_update THEN
                    UpdateBranch(qf, p1, questions, current_index, human_response, a, tr1)
                ELSE
                    LET p2 == MarkCompleted(p1, current_index - 1)
                    IN  ServeNext(qf, p2, questions, p2.current_question_index,
                                  PyBool(wants_to_update), a, tr1)

\* process.py 145-198: classify the reply to questions[current_index - 1]
NormalBranch(qf, progress, questions, current_index, human_response, v, a, tr) ==
    LET prev_question == At(questions, current_index - 1)
        prev_ai_response == GetLastAiResponse(progress)
        tr1 == Append(tr, EvClassify(prev_question, prev_ai_response, human_response, v))
    IN  IF v.raised THEN
            [qf |-> qf, pf |-> <<>>, result |-> Raised("validation_identification"),
             tr |-> tr1]
        ELSE
            LET wants_to_update == v.validation_indenty
                p1 == RecordAnswer(progress, current_index - 1, prev_question,
                                   prev_ai_response, human_response, wants_to_update)
            IN  IF wants_to_update THEN
                    UpdateBranch(qf, p1, questions, current_index, human_response, a, tr1)
                ELSE
                    LET p2 == MarkCompleted(p1, current_index - 1)
                    IN  ServeNext(qf, p2, questions, p2.current_question_index,
                                  PyBool(wants_to_update), a, tr1)

\* A method's outcome: pf = <<>> means progress_<user>.json was not written.
process_next_question(qf0, pf0, human_response, g, v, a) ==
    LET iq == initialize_questions(qf0, g)
    IN  IF iq.raised THEN
            [qf |-> iq.qf, pf |-> <<>>, result |-> Raised("generate_questions"),
             tr |-> iq.tr]
        ELSE
            LET progress == load_progress(pf0)
                questions == iq.data.questions
                current_index == progress.current_question_index
            IN  IF current_index > 0 /\ current_index <= Len(questions) THEN
                    IF is_last_question(current_index, questions) THEN
                        TerminalBranch(iq.qf, progress, questions, current_index,
                                       human_response, a, iq.tr)
                    ELSE
                        NormalBranch(iq.qf, progress, questions, current_index,
                                     human_response, v, a, iq.tr)
                ELSE
                    ServeNext(iq.qf, progress, questions, current_index, PyNone, a, iq.tr)

start_workflow(qf0, pf0, g, a) ==
    LET iq == initialize_questions(qf0, g)
    IN  IF iq.raised THEN
            [qf |-> iq.qf, pf |-> <<>>, result |-> Raised("generate_questions"),
             tr |-> iq.tr]
        ELSE
            LET progress == load_progress(pf0)
                questions == iq.data.questions
                current_index == progress.current_question_index
            IN  IF current_index >= Len(questions) THEN
                    StartCompleted(iq.qf, progress, questions, iq.tr)
                ELSE
                    LET current_question == At(questions, current_index)
                        tr1 == Append(iq.tr, EvAsk(current_question, a))
                    IN  IF a.raised THEN
                            [qf |-> iq.qf, pf |-> <<>>, result |-> Raised("ask_question"),
                             tr |-> tr1]
                        ELSE
                            LET p1 == AdvanceAfterStart(progress, a.reply, current_index)
                            IN  [qf |-> iq.qf, pf |-> save_progress(p1),
                                 result |-> [status |-> "started",
                                             question_number |-> current_index + 1,
                                             total_questions |-> Len(questions),
                                             question |-> current_question,
                                             ai_response |-> a.reply,
                                             completed |-> Len(p1.completed_questions)],
                                 tr |-> Append(tr1, EvSaveProgress(p1))]

----------------------------------------------------------------------------
(* The state machine: one call at a time for one user *)

\* Requests of one user that the event loop can be serving at once.
Procs == {"p1", "p2"}

\* Requests each of them makes in the explored runs.
MaxCalls == 2

\* a task that is serving no request, after n requests
NoRequest(n) ==
    [pc |-> "idle", n |-> n, op |-> "none", h |-> "", v |-> ClassifierRaises,
     qf |-> <<>>, pf |-> <<>>,
     out |-> [pf |-> <<>>, result |-> [status |-> "none"], tr |-> <<>>]]

\* The users served side by side.  A user id is a string, here the sequence
\* of its characters; one id is a prefix of the other.
UserIds == {<<"a">>, <<"a", "b">>}

\* process.py 23: f"questions_{user_id}.json"
QuestionsPath(user_id) == <<"questions_">> \o user_id \o <<".json">>

\* Mutant of ProgressPath: one progress file for all users.
ProgressPath_Shared(user_id) == <<"progress_">> \o <<".json">>

\* process.py 24: f"progress_{user_id}.json"
ProgressPath(user_id) == <<"progress_">> \o user_id \o <<".json">>

\* client.py 228, 239, 251: f"conversation:{user_id}"
RedisKey(user_id) == <<"conversation:">> \o user_id

\* the file names and Redis keys the users' calls can touch
Paths == UNION {{QuestionsPath(u), ProgressPath(u)} : u \in UserIds}
Keys == {RedisKey(u) : u \in UserIds}

\* no file, no key, no call running (conv: the record a running call read)
InitialTenants ==
    [files |-> [path \in Paths |-> <<>>],
     redis |-> [key \in Keys |-> <<>>],
     serving |-> [u \in UserIds |-> NoRequest(0) @@ [conv |-> <<>>]]]

\* Tasks that call get_or_create_agent.
Callers == {"t1", "t2", "t3"}

\* a task outside get_or_create_agent after n calls, with what the last gave
Outside(n, status, value) == [pc |-> "outside", n |-> n, status |-> status, value |-> value]

\* client.py 263-265: no client, no agent (<<>> is None), the lock free with
\* nobody waiting; made counts the objects constructed, failed the calls
\* that raised
InitialSingleton ==
    [mcp_client |-> <<>>, agent |-> <<>>, locked |-> FALSE, waiters |-> <<>>,
     tasks |-> [t \in Callers |-> Outside(0, "none", <<>>)],
     clients_made |-> 0, agents_made |-> 0, failed |-> 0]

\* The rows of the explored database.  A nullable integer column is <<>>
\* (NULL) or <<n>>; a nullable text column is PyNone or the text.  Practice
\* P1 is known as an individual and as a company, P2's individual entry has
\* no reference_id, P3 is known as a company only.
InitialDatabase ==
    [internal_data |->
        {[practice_id |-> "P1", reference |-> "individual", reference_id |-> <<1>>],
         [practice_id |-> "P1", reference |-> "company", reference_id |-> <<1>>],
         [practice_id |-> "P2", reference |-> "individual", reference_id |-> <<>>],
         [practice_id |-> "P3", reference |-> "company", reference_id |-> <<1>>]},
     individual |->
        (1 :> [first_name |-> "A", middle_name |-> PyNone, last_name |-> "A",
               birth_date |-> "D1", occupation |-> "A",
               refund_method |-> "check"]),
     company |-> (1 :> [name |-> "A", occupation |-> "A"]),
     contact_info |->
        (1 :> [reference |-> "individual", reference_id |-> 1, status |-> 1,
               address1 |-> "A", city |-> "A"]
         @@ 2 :> [reference |-> "company", reference_id |-> 1, status |-> 1,
                  address1 |-> "A", city |-> "A"])]

Init ==
    /\ questions_file = <<>>
    /\ progress_file = <<>>
    /\ call = [op |-> "none"]
    /\ trace = <<>>
    /\ result = [status |-> "none"]
    /\ conversation = <<>>
    /\ inflight = [p \in Procs |-> NoRequest(0)]
    /\ database = InitialDatabase
    /\ tenants = InitialTenants
    /\ singleton = InitialSingleton

\* Commit a method's outcome: the files it wrote, its events, its result.
\* What ask_question does behind its return value (the Redis record) is the
\* subject of SpecMemory below; here the agent is its outcome only.
Commit(out) ==
    /\ questions_file' = out.qf
    /\ progress_file' = IF out.pf = <<>> THEN progress_file ELSE out.pf
    /\ trace' = out.tr
    /\ result' = out.result
    /\ UNCHANGED <<conversation, inflight, database, tenants, singleton>>

\* The generator's outcome matters only to a call that finds no catalog file.
GenChoices == IF questions_file = <<>> THEN GenOutcomes ELSE {GenError}

\* One call of each method, given what its collaborators do.
DoStartWorkflow(g, a) ==
    /\ call' = [op |-> "start_workflow", loaded |-> load_progress(progress_file)]
    /\ Commit(start_workflow(questions_file, progress_file, g, a))

DoProcessNextQuestion(h, g, v, a) ==
    /\ call' = [op |-> "process_next_question", human_response |-> h,
                loaded |-> load_progress(progress_file)]
    /\ Commit(process_next_question(questions_file, progress_file, h, g, v, a))

StartWorkflow ==
    \E g \in GenChoices, a \in AgentOutcomes : DoStartWorkflow(g, a)

ProcessNextQuestion ==
    \E h \in HumanReplies, g \in GenChoices, v \in ClassifierOutcomes, a \in AgentOutcomes :
        DoProcessNextQuestion(h, g, v, a)

Next == StartWorkflow \/ ProcessNextQuestion

Spec == Init /\ [][Next]_vars

----------------------------------------------------------------------------
(* The same calls with every outcome of the generator, the 25 s timeout     *)
(* included; the walk through the catalog is cut at MaxWalk.                *)

GenChoicesAll ==
    IF questions_file = <<>> THEN GenOutcomes \cup {GenTimeout} ELSE {GenError}

CatalogStartWorkflow ==
    /\ load_progress(progress_file).current_question_index < MaxWalk
    /\ \E g \in GenChoicesAll, a \in AgentOutcomes : DoStartWorkflow(g, a)

CatalogProcessNextQuestion ==
    /\ load_progress(progress_file).current_question_index < MaxWalk
    /\ \E h \in HumanReplies, g \in GenChoicesAll, v \in ClassifierOutcomes,
          a \in AgentOutcomes :
            DoProcessNextQuestion(h, g, v, a)

NextCatalog == CatalogStartWorkflow \/ CatalogProcessNextQuestion

SpecCatalog == Init /\ [][NextCatalog]_vars

----------------------------------------------------------------------------
(* What the properties below read off a state *)

\* the persisted Progress and catalog, as the next call would load them
Progress == load_progress(progress_file)
Catalog == IF questions_file = <<>> THEN <<>> ELSE questions_file[1].questions
N == Len(Catalog)

\* the collaborator calls and Progress writes of the last call
ClassifierCalls == SelectSeq(trace, LAMBDA e : e.ev = "validation_identification")
AgentCalls == SelectSeq(trace, LAMBDA e : e.ev = "ask_question")
ProgressWrites == SelectSeq(trace, LAMBDA e : e.ev = "save_progress")

\* the last call was process_next_question / start_workflow and it returned
ProcessReturned ==
    call.op = "process_next_question" /\ result.status # "exception"
StartReturned ==
    call.op = "start_workflow" /\ result.status # "exception"

\* process_next_question was called with 0 < current_question_index < N
\* and the classifier returned the verdict (t, u)
NormalCaseWith(t, u) ==
    /\ ProcessReturned
    /\ call.loaded.current_question_index > 0
    /\ call.loaded.current_question_index < N
    /\ Len(ClassifierCalls) = 1
    /\ ClassifierCalls[1].ret = Verdict(t, u)

OffTopicCase == \E u \in BOOLEAN : NormalCaseWith(FALSE, u)
WantsUpdateCase == NormalCaseWith(TRUE, TRUE)
ConfirmCase == NormalCaseWith(TRUE, FALSE)

\* process_next_question was called with current_question_index = N > 0
TerminalCase ==
    /\ ProcessReturned
    /\ call.loaded.current_question_index > 0
    /\ call.loaded.current_question_index = N

----------------------------------------------------------------------------
(* Properties *)

\* C1: an off-topic verdict at 0 < current_question_index < N leaves
\* current_question_index, completed_questions and last_ai_response of the
\* persisted Progress as they were before the call.
C1_OffTopicLeavesProgress ==
    OffTopicCase =>
        /\ Progress.current_question_index = call.loaded.current_question_index
        /\ Progress.completed_questions = call.loaded.completed_questions
        /\ Progress.last_ai_response = call.loaded.last_ai_response

\* C2: an off-topic verdict at 0 < current_question_index < N is answered
\* with status "off_topic", whatever wants_update says.
C2_OffTopicStatus ==
    OffTopicCase => result.status = "off_topic"

\* C3: an on-topic wants-update verdict at 0 < current_question_index < N
\* records the answer for prev_idx with wants_update = true, does not mark
\* prev_idx completed, keeps the cursor, and stores the agent's new reply as
\* last_ai_response.
C3_WantsUpdateKeepsCursor ==
    WantsUpdateCase =>
        LET prev_idx == call.loaded.current_question_index - 1
        IN  /\ prev_idx \in DOMAIN Progress.answers
            /\ Progress.answers[prev_idx] =
                   [question |-> At(Catalog, prev_idx),
                    ai_response |-> GetLastAiResponse(call.loaded),
                    human_response |-> call.human_response,
                    wants_update |-> TRUE]
            /\ ~InList(prev_idx, Progress.completed_questions)
            /\ Progress.completed_questions = call.loaded.completed_questions
            /\ Progress.current_question_index = call.loaded.current_question_index
            /\ Len(AgentCalls) = 1
            /\ Progress.last_ai_response = AgentCalls[1].ret.reply

C3_Witness ==
    /\ WantsUpdateCase
    /\ result.status = "in_progress"
    /\ Progress.last_ai_response # call.loaded.last_ai_response

\* C4: in the wants-update branch the agent is asked the human reply itself
\* and the result is "in_progress" with the number of the question being
\* corrected (prev_idx + 1), the human reply as question, and
\* validation_result = true.
C4_WantsUpdateResult ==
    WantsUpdateCase =>
        /\ Len(AgentCalls) = 1
        /\ AgentCalls[1].question = call.human_response
        /\ result.status = "in_progress"
        /\ result.question_number = (call.loaded.current_question_index - 1) + 1
        /\ result.question = call.human_response
        /\ result.ai_response = AgentCalls[1].ret.reply
        /\ result.validation_result = PyBool(TRUE)

C4_Witness ==
    /\ WantsUpdateCase
    /\ call.loaded.current_question_index = 2
    /\ call.loaded.completed_questions = <<0>>
    /\ result.question_number = 2
    /\ result.question = call.human_response

\* C5: an on-topic confirming verdict at 0 < current_question_index = c < N
\* adds c-1 to completed_questions, asks the agent catalog[c], moves the
\* cursor to c+1 and returns "in_progress" with question_number = c+1,
\* question = catalog[c], validation_result = false and completed = the new
\* size of completed_questions.
C5_ConfirmAdvances ==
    ConfirmCase =>
        LET c == call.loaded.current_question_index
        IN  /\ InList(c - 1, Progress.completed_questions)
            /\ Len(AgentCalls) = 1
            /\ AgentCalls[1].question = At(Catalog, c)
            /\ Progress.current_question_index = c + 1
            /\ result.status = "in_progress"
            /\ result.question_number = c + 1
            /\ result.question = At(Catalog, c)
            /\ result.validation_result = PyBool(FALSE)
            /\ result.completed = Len(Progress.completed_questions)

C5_Witness ==
    /\ ConfirmCase
    /\ call.loaded.current_question_index = 1
    /\ result.question_number = 2
    /\ result.question = "Q1"
    /\ Progress.completed_questions = <<0>>
    /\ result.completed = 1

\* C6: a process_next_question call that finds current_question_index = N
\* never invokes the classifier, whatever the human reply.
C6_TerminalSkipsClassifier ==
    (/\ call.op = "process_next_question"
     /\ questions_file # <<>>
     /\ call.loaded.current_question_index = N)
        => Len(ClassifierCalls) = 0

C6_Witness ==
    /\ call.op = "process_next_question"
    /\ N > 0
    /\ call.loaded.current_question_index = N
    /\ Len(AgentCalls) = 1
    /\ Len(ClassifierCalls) = 0

\* C7: a process_next_question call that finds current_question_index = N
\* (N > 0) records the answer for N-1 with wants_update = false, has N-1 in
\* completed_questions afterwards, asks the agent the human reply verbatim,
\* keeps the cursor at N and returns "completed" with the agent's reply as
\* final_response.
C7_TerminalCompletes ==
    TerminalCase =>
        /\ (N - 1) \in DOMAIN Progress.answers
        /\ Progress.answers[N - 1] =
               [question |-> At(Catalog, N - 1),
                ai_response |-> GetLastAiResponse(call.loaded),
                human_response |-> call.human_response,
                wants_update |-> FALSE]
        /\ InList(N - 1, Progress.completed_questions)
        /\ Len(AgentCalls) = 1
        /\ AgentCalls[1].question = call.human_response
        /\ Progress.current_question_index = N
        /\ result.status = "completed"
        /\ result.final_response = AgentCalls[1].ret.reply
        /\ Progress.last_ai_response = AgentCalls[1].ret.reply

C7_Witness ==
    /\ TerminalCase
    /\ N = 3
    /\ result.status = "completed"
    /\ result.completed_questions = 3
    /\ ~InList(N - 1, call.loaded.completed_questions)

\* C8: with current_question_index = 0 and N > 0, process_next_question does
\* to Progress what start_workflow does: no classifier call, no answer
\* recorded, nothing marked completed, catalog[0] served as question 1 with
\* validation_result = None, cursor 1.
C8_FirstCallLikeStart ==
    (/\ ProcessReturned
     /\ N > 0
     /\ call.loaded.current_question_index = 0)
        =>
        /\ Len(ClassifierCalls) = 0
        /\ DOMAIN Progress.answers = {}
        /\ Progress.completed_questions = call.loaded.completed_questions
        /\ Len(AgentCalls) = 1
        /\ AgentCalls[1].question = At(Catalog, 0)
        /\ result.status = "in_progress"
        /\ result.question = At(Catalog, 0)
        /\ result.question_number = 1
        /\ result.validation_result = PyNone
        /\ Progress.current_question_index = 1
        /\ progress_file =
               start_workflow(questions_file, save_progress(call.loaded), GenError,
                              AgentCalls[1].ret).pf

C8_Witness ==
    /\ ProcessReturned
    /\ N > 0
    /\ call.loaded.current_question_index = 0
    /\ result.status = "in_progress"
    /\ result.question_number = 1

\* C9: a start_workflow call that returns with persisted cursor c < N serves
\* catalog[c] as question c+1 and leaves the persisted cursor at c+1; so the
\* second of two start_workflow calls of a new user serves catalog[1].
C9_StartAdvancesOnce ==
    (/\ StartReturned
     /\ call.loaded.current_question_index < N)
        =>
        LET c == call.loaded.current_question_index
        IN  /\ result.status = "started"
            /\ result.question = At(Catalog, c)
            /\ result.question_number = c + 1
            /\ Len(AgentCalls) = 1
            /\ AgentCalls[1].question = At(Catalog, c)
            /\ Progress.current_question_index = c + 1
            /\ (c >= 1 => result.question # At(Catalog, 0))

C9_Witness ==
    /\ StartReturned
    /\ call.loaded.current_question_index = 1
    /\ DOMAIN call.loaded.answers = {}
    /\ call.loaded.completed_questions = <<>>
    /\ result.status = "started"
    /\ result.question_number = 2
    /\ result.question = "Q1"
    /\ Progress.current_question_index = 2

\* C10: a start_workflow call that finds current_question_index >= N returns
\* "completed" with total_questions = N and completed_questions = the size
\* of the completed set; it neither asks the agent nor writes Progress.
C10_StartWhenCompleted ==
    (/\ call.op = "start_workflow"
     /\ questions_file # <<>>
     /\ call.loaded.current_question_index >= N)
        =>
        /\ result.status = "completed"
        /\ result.total_questions = N
        /\ result.completed_questions = Len(call.loaded.completed_questions)
        /\ Len(AgentCalls) = 0
        /\ Len(ProgressWrites) = 0
        /\ Progress = call.loaded

C10_Witness ==
    /\ call.op = "start_workflow"
    /\ N > 0
    /\ call.loaded.current_question_index >= N
    /\ result.status = "completed"
    /\ result.completed_questions = N

\* C11: whatever start_workflow and process_next_question calls were made,
\* one at a time, the persisted cursor satisfies
\* 0 <= current_question_index <= N, N the length of the persisted catalog
\* (no catalog: no Progress either, and the cursor is 0).
C11_CursorInRange ==
    /\ Progress.current_question_index >= 0
    /\ Progress.current_question_index <= N
    /\ (questions_file = <<>> => progress_file = <<>>)

C11_Witness ==
    /\ N = 3
    /\ Progress.current_question_index = N
    /\ call.op = "process_next_question"
    /\ call.loaded.current_question_index = N

\* C12: every index in the persisted completed_questions is below the
\* persisted cursor, and the answer record stored last for it has
\* wants_update = false.
C12_CompletedBelowCursor ==
    \A k \in 1..Len(Progress.completed_questions) :
        LET idx == Progress.completed_questions[k]
        IN  /\ idx < Progress.current_question_index
            /\ idx \in DOMAIN Progress.answers
            /\ Progress.answers[idx].wants_update = FALSE

\* a question that was corrected first and confirmed afterwards
C12_Witness ==
    /\ call.op = "process_next_question"
    /\ call.loaded.current_question_index = 2
    /\ 1 \in DOMAIN call.loaded.answers
    /\ call.loaded.answers[1].wants_update = TRUE
    /\ Progress.completed_questions = <<0, 1>>
    /\ Progress.current_question_index = 3

\* the classifier returned validation_indenty = true: process.py 169 is taken
UpdateBranchTaken ==
    /\ call.op = "process_next_question"
    /\ Len(ClassifierCalls) = 1
    /\ ~ClassifierCalls[1].ret.raised
    /\ ClassifierCalls[1].ret.validation_indenty

\* C13: a process_next_question call never leaves the persisted cursor below
\* the one it loaded (call.loaded is the Progress persisted by the previous
\* call), and a call that takes the wants-update branch leaves it equal.
C13_CursorMonotone ==
    call.op = "process_next_question" =>
        /\ Progress.current_question_index >= call.loaded.current_question_index
        /\ (UpdateBranchTaken =>
               Progress.current_question_index = call.loaded.current_question_index)

\* the second of two corrections of question 2 in a row
C13_Witness ==
    /\ UpdateBranchTaken
    /\ result.status = "in_progress"
    /\ call.loaded.current_question_index = 2
    /\ 1 \in DOMAIN call.loaded.answers
    /\ call.loaded.answers[1].wants_update = TRUE
    /\ Progress.current_question_index = 2

\* the generator calls of the last call
GeneratorCalls == SelectSeq(trace, LAMBDA e : e.ev = "generate_questions")

\* C14: once a catalog is persisted, every later call leaves the file as it
\* is, does not invoke the generator, and reports that catalog's length as
\* total_questions (and, when it serves a catalog question, that list's
\* entry).
C14_CatalogStable ==
    [][questions_file # <<>> =>
          /\ questions_file' = questions_file
          /\ Len(GeneratorCalls') = 0
          /\ (result'.status \in {"started", "in_progress", "completed"} =>
                 result'.total_questions = Len(questions_file[1].questions))
          /\ (result'.status = "started" =>
                 result'.question =
                     At(questions_file[1].questions, result'.question_number - 1))
      ]_vars

C14_Witness ==
    /\ questions_file # <<>>
    /\ Len(GeneratorCalls) = 0
    /\ call.op = "start_workflow"
    /\ call.loaded.current_question_index = 2
    /\ result.status = "started"
    /\ result.total_questions = 3
    /\ result.question = "Q2"

\* the last call found no catalog and its generator call timed out / failed
GeneratorFailed ==
    /\ call.op \in {"start_workflow", "process_next_question"}
    /\ Len(GeneratorCalls) = 1
    /\ GeneratorCalls[1].ret \in {"timeout", "error"}

\* C15: when no catalog is persisted and the generator times out or fails
\* with any other error, the static fallback list is persisted as the
\* catalog and the failure does not reach the caller.
C15_GeneratorFailureFallsBack ==
    GeneratorFailed =>
        /\ result # Raised("generate_questions")
        /\ questions_file # <<>>
        /\ Catalog = generate_fallback_questions.question

\* the last call was a start_workflow for a user with no catalog yet
StartOnNewUser == call.op = "start_workflow" /\ Len(GeneratorCalls) = 1

\* C16: a start_workflow call on a new user persists the catalog and the
\* Progress together or not at all; in particular a call that fails leaves
\* neither a catalog nor a Progress behind.
C16_FailedStartLeavesNoCatalog ==
    (StartOnNewUser /\ result.status = "exception") =>
        /\ (questions_file # <<>>) <=> (progress_file # <<>>)
        /\ questions_file = <<>>

\* during the last call the classifier or the Answering Agent raised
CollaboratorRaised ==
    \E k \in 1..Len(trace) :
        /\ trace[k].ev \in {"validation_identification", "ask_question"}
        /\ trace[k].ret.raised

\* C17: a call in which the classifier or the Answering Agent raises ends in
\* that error at the caller and leaves the persisted Progress as it was
\* before the call.
C17_CollaboratorFailureKeepsProgress ==
    [][CollaboratorRaised' =>
          /\ result'.status = "exception"
          /\ result'.raised_by \in {"validation_identification", "ask_question"}
          /\ progress_file' = progress_file
          /\ Len(ProgressWrites') = 0
      ]_vars
\* the agent raised in the confirm branch, after the answer to question 1 was
\* recorded and marked completed in memory; the file still has cursor 2.
C17_Witness ==
    /\ call.op = "process_next_question"
    /\ Len(ClassifierCalls) = 1
    /\ ~ClassifierCalls[1].ret.raised
    /\ ~ClassifierCalls[1].ret.validation_indenty
    /\ Len(AgentCalls) = 1
    /\ AgentCalls[1].ret.raised
    /\ result = Raised("ask_question")
    /\ call.loaded.current_question_index = 2
    /\ progress_file # <<>>
    /\ Progress = call.loaded
    /\ 1 \notin DOMAIN Progress.answers

----------------------------------------------------------------------------
(* Session memory (src/client.py): one Redis key per user holding the      *)
(* JSON of memory_data, with a time to live.  The key is a sequence of     *)
(* length 0 (no key) or 1: [value |-> memory_data, ttl |-> seconds left].  *)
(* A Redis command either works or raises (redis_ok = FALSE).  The text of *)
(* the prompt built by ask_question is the record of what it is built      *)
(* from; get_recent_context and get_workflow_state only read, swallow      *)
(* their errors and feed nothing but the prompt text, and are left out.    *)

\* Most agent calls that are stored in the explored runs.
MaxTurns == 2

\* redis_client.setex(key, 43200, ...)
TTL == 43200

\* client_id / reference arguments: absent (None) or a value
ClientIds == {PyNone, "C1"}
References == {PyNone, "company"}

\* Python truthiness of an Optional[str] argument
Truthy(x) == x # PyNone /\ x # ""

\* get_conversation_memory's value for a missing key or a failed read
DefaultMemory ==
    [messages |-> <<>>, metadata |-> EmptyDict,
     client_id |-> Absent, reference |-> Absent]

\* d.get(key, default) on memory_data
MemoryGet(memory_data, key, default) ==
    IF memory_data[key] = Absent THEN default ELSE memory_data[key]

RedisGet(ok) == [ev |-> "redis.get", ok |-> ok]
RedisSetex(ok) == [ev |-> "redis.setex", ok |-> ok]
RedisDelete(ok) == [ev |-> "redis.delete", ok |-> ok]
AgentInvoke(a) == [ev |-> "agent.ainvoke", ret |-> a]

\* client.py 236-245
get_conversation_memory(conv, redis_ok) ==
    IF redis_ok /\ conv # <<>> THEN conv[1].value ELSE DefaultMemory

\* Mutant of store_conversation_memory: a key that exists keeps the time it
\* has left (SET ... KEEPTTL instead of SETEX).
store_conversation_memory_KeepsTtl(conv, messages, client_id, reference, metadata, redis_ok) ==
    IF redis_ok THEN
        <<[value |-> [messages |-> messages,
                      client_id |-> client_id,
                      reference |-> reference,
                      metadata |-> IF metadata = <<>> THEN EmptyDict ELSE metadata[1]],
           ttl |-> IF conv = <<>> THEN TTL ELSE conv[1].ttl]>>
    ELSE conv

\* client.py 214-234; metadata is <<>> for None, <<dict>> otherwise
store_conversation_memory(conv, messages, client_id, reference, metadata, redis_ok) ==
    IF redis_ok THEN
        <<[value |-> [messages |-> messages,
                      client_id |-> client_id,
                      reference |-> reference,
                      metadata |-> IF metadata = <<>> THEN EmptyDict ELSE metadata[1]],
           ttl |-> TTL]>>
    ELSE conv

\* client.py 248-254
clear_conversation_memory(conv, redis_ok) == IF redis_ok THEN <<>> ELSE conv

\* client.py 320-374
process_question(conv, user_question, client_id, reference, a, get_ok, set_ok, tr) ==
    LET memory_data == get_conversation_memory(conv, get_ok)
        \* 330-333: written into the local dict, which is not what is stored
        memory_data1 ==
            [memory_data EXCEPT
                !.client_id = IF Truthy(client_id) THEN client_id ELSE @,
                !.reference = IF Truthy(reference) THEN reference ELSE @]
        messages == Append(memory_data1.messages,
                           [role |-> "user", content |-> user_question])
        tr1 == tr \o <<RedisGet(get_ok), AgentInvoke(a)>>
    IN  IF a.raised THEN
            [conv |-> conv, result |-> Raised("ask_question"), tr |-> tr1]
        ELSE
            LET messages1 == Append(messages,
                                    [role |-> "assistant", content |-> a.reply])
            IN  [conv |-> store_conversation_memory(conv, messages1, client_id,
                                                    reference, <<>>, set_ok),
                 result |-> [status |-> "returned", value |-> a.reply],
                 tr |-> Append(tr1, RedisSetex(set_ok))]

\* the prompt of client.py 454-582
ContextualQuestion(question, client_id, reference) ==
    [question |-> question, client_id |-> client_id, reference |-> reference]

\* client.py 437-588
ask_question(conv, question, client_id, reference, a, mem_ok, get_ok, set_ok) ==
    LET memory_data == get_conversation_memory(conv, mem_ok)
        client_id1 == IF Truthy(client_id) THEN client_id
                      ELSE MemoryGet(memory_data, "client_id", PyNone)
        reference1 == IF Truthy(reference) THEN reference
                      ELSE MemoryGet(memory_data, "reference", "individual")
    IN  process_question(conv, ContextualQuestion(question, client_id1, reference1),
                         client_id1, reference1, a, get_ok, set_ok,
                         <<RedisGet(mem_ok)>>)

\* metadata.get('workflow_state', {...}) of client.py 407-413
DefaultWorkflowState ==
    [current_task |-> 1, current_subtask |-> 1, completed_tasks |-> <<>>,
     completed_subtasks |-> <<>>, current_question_id |-> PyNone]

AppendIfNew(seq, opt) ==
    IF opt # <<>> /\ ~InList(opt[1], seq) THEN Append(seq, opt[1]) ELSE seq

\* client.py 400-434; an int argument is <<>> for None, <<n>> otherwise
update_workflow_state(conv, args, get_ok, set_ok) ==
    LET memory_data == get_conversation_memory(conv, get_ok)
        metadata == memory_data.metadata
        ws0 == IF "workflow_state" \in DOMAIN metadata
               THEN metadata["workflow_state"] ELSE DefaultWorkflowState
        workflow_state ==
            [current_task |-> IF args.task # <<>> THEN args.task[1] ELSE ws0.current_task,
             current_subtask |-> IF args.subtask # <<>> THEN args.subtask[1]
                                 ELSE ws0.current_subtask,
             current_question_id |-> IF args.question_id # PyNone THEN args.question_id
                                     ELSE ws0.current_question_id,
             completed_tasks |-> AppendIfNew(ws0.completed_tasks, args.completed_task),
             completed_subtasks |-> AppendIfNew(ws0.completed_subtasks,
                                                args.completed_subtask)]
        metadata1 == DictSet(metadata, "workflow_state", workflow_state)
    IN  [conv |-> store_conversation_memory(conv, memory_data.messages,
                     MemoryGet(memory_data, "client_id", PyNone),
                     MemoryGet(memory_data, "reference", PyNone),
                     <<metadata1>>, set_ok),
         result |-> [status |-> "returned", value |-> PyNone],
         tr |-> <<RedisGet(get_ok), RedisSetex(set_ok)>>]

\* arguments of update_workflow_state in the explored runs
WorkflowUpdates ==
    {[task |-> <<2>>, subtask |-> <<>>, question_id |-> PyNone,
      completed_task |-> <<>>, completed_subtask |-> <<>>],
     [task |-> <<>>, subtask |-> <<2>>, question_id |-> "q1",
      completed_task |-> <<1>>, completed_subtask |-> <<1>>]}

StoredMessages == IF conversation = <<>> THEN <<>> ELSE conversation[1].value.messages

\* a caller's view of one call: its name, the ids it passed, the key before
CallOf(op, client_id, reference) ==
    [op |-> op, client_id |-> client_id, reference |-> reference,
     before |-> conversation]

CommitMemory(out) ==
    /\ conversation' = out.conv
    /\ result' = out.result
    /\ trace' = out.tr
    /\ UNCHANGED <<questions_file, progress_file, inflight, database, tenants, singleton>>

AskQuestion ==
    /\ Len(StoredMessages) < 2 * MaxTurns
    /\ \E client_id \in ClientIds, reference \in References,
          a \in {AgentReply("R1"), AgentRaises},
          mem_ok \in BOOLEAN, get_ok \in BOOLEAN, set_ok \in BOOLEAN :
            /\ call' = CallOf("ask_question", client_id, reference)
            /\ CommitMemory(ask_question(conversation, "Q0", client_id, reference,
                                         a, mem_ok, get_ok, set_ok))

StoreConversationMemory ==
    \E messages \in {<<>>, StoredMessages},
       client_id \in ClientIds, reference \in References, set_ok \in BOOLEAN :
        /\ call' = CallOf("store_conversation_memory", client_id, reference)
        /\ CommitMemory([conv |-> store_conversation_memory(conversation, messages,
                                     client_id, reference, <<>>, set_ok),
                         result |-> [status |-> "returned", value |-> PyNone],
                         tr |-> <<RedisSetex(set_ok)>>])

UpdateWorkflowState ==
    \E args \in WorkflowUpdates, get_ok \in BOOLEAN, set_ok \in BOOLEAN :
        /\ call' = CallOf("update_workflow_state", PyNone, PyNone)
        /\ CommitMemory(update_workflow_state(conversation, args, get_ok, set_ok))

ClearConversationMemory ==
    \E del_ok \in BOOLEAN :
        /\ call' = CallOf("clear_conversation_memory", PyNone, PyNone)
        /\ CommitMemory([conv |-> clear_conversation_memory(conversation, del_ok),
                         result |-> [status |-> "returned", value |-> PyNone],
                         tr |-> <<RedisDelete(del_ok)>>])

\* Half of the time to live passes; Redis drops the key when none is left.
Elapse ==
    /\ conversation # <<>>
    /\ call' = CallOf("elapse", PyNone, PyNone)
    /\ CommitMemory([conv |-> IF conversation[1].ttl - TTL \div 2 <= 0 THEN <<>>
                              ELSE <<[conversation[1] EXCEPT !.ttl = @ - TTL \div 2]>>,
                     result |-> [status |-> "none"],
                     tr |-> <<>>])

NextMemory ==
    \/ AskQuestion
    \/ StoreConversationMemory
    \/ UpdateWorkflowState
    \/ ClearConversationMemory
    \/ Elapse

SpecMemory == Init /\ [][NextMemory]_vars

\* during the last call a Redis command raised inside the memory functions
RedisFailed ==
    \E k \in 1..Len(trace) :
        /\ trace[k].ev \in {"redis.get", "redis.setex", "redis.delete"}
        /\ ~trace[k].ok

\* C18: a failure of the Session Memory store during the load or the save of
\* an ask_question call is surfaced to the caller as a failure of the call.
C18_StoreFailureSurfaced ==
    (call.op = "ask_question" /\ RedisFailed) => result.status = "exception"

\* the last call wrote a key that existed, and every Redis command worked
OmittingSave ==
    /\ call.op \in {"store_conversation_memory", "ask_question",
                    "update_workflow_state"}
    /\ call.before # <<>>
    /\ conversation # <<>>
    /\ ~RedisFailed

\* C20: a write of the record by a call that passes no client_id (no
\* reference) leaves the stored client_id (reference) as it was.
C20_IdsSurviveOmission ==
    OmittingSave =>
        /\ (call.client_id = PyNone /\ Truthy(call.before[1].value.client_id)
              => conversation[1].value.client_id = call.before[1].value.client_id)
        /\ (call.reference = PyNone /\ Truthy(call.before[1].value.reference)
              => conversation[1].value.reference = call.before[1].value.reference)

\* the turns stored for the user before the last call
MessagesBefore == IF call.before = <<>> THEN <<>> ELSE call.before[1].value.messages

\* the last call was ask_question, the agent answered and the record was
\* written
AgentAnsweredAndSaved ==
    /\ call.op = "ask_question"
    /\ result.status = "returned"
    /\ \E k \in 1..Len(trace) : trace[k] = RedisSetex(TRUE)

\* C29: an Answering Agent call that succeeds (and whose save goes through)
\* leaves the stored turns as they were before it followed by two new ones,
\* the user prompt and then the assistant reply; a call in which the agent
\* raises leaves the stored turns as they were.
C29_AgentCallAppendsTwoTurns ==
    /\ AgentAnsweredAndSaved =>
          /\ Len(StoredMessages) = Len(MessagesBefore) + 2
          /\ SubSeq(StoredMessages, 1, Len(MessagesBefore)) = MessagesBefore
          /\ StoredMessages[Len(StoredMessages) - 1].role = "user"
          /\ StoredMessages[Len(StoredMessages)].role = "assistant"
          /\ StoredMessages[Len(StoredMessages)].content = result.value
    /\ (call.op = "ask_question" /\ result.status = "exception") =>
          StoredMessages = MessagesBefore

----------------------------------------------------------------------------
(* Overlapping requests of one user (src/app.py 50-111).  The endpoint is  *)
(* a coroutine: requests interleave where a call really suspends, which is *)
(* in generate_questions (wait_for / to_thread) and in ask_question        *)
(* (agent.ainvoke).  validation_identification calls agent.invoke without  *)
(* awaiting, so the load of Progress and the classifier are one step.      *)
(* A suspended request keeps what it read: its catalog qf and the Progress *)
(* file pf as loaded; when it resumes it finishes the method on those.     *)

\* The method of request c, run on the catalog and Progress it holds, with
\* agent outcome a.  The catalog exists by then, the generator is not asked.
RequestOut(c, a) ==
    IF c.op = "start_workflow" THEN start_workflow(c.qf, c.pf, GenError, a)
    ELSE process_next_question(c.qf, c.pf, c.h, GenError, c.v, a)

\* does the method reach ask_question?
AsksAgent(out) == \E k \in 1..Len(out.tr) : out.tr[k].ev = "ask_question"

\* Mutant of WriteBack: a write whose cursor is not ahead of the file's is
\* taken as one more advance of the file's cursor.
WriteBack_MovesPast(pf_now, pf_out) ==
    IF pf_out = <<>> \/ pf_now = <<>> THEN (IF pf_out = <<>> THEN pf_now ELSE pf_out)
    ELSE save_progress(
            [load_progress(pf_out) EXCEPT !.current_question_index =
                IF @ > load_progress(pf_now).current_question_index THEN @
                ELSE load_progress(pf_now).current_question_index + 1])

\* save_progress: json.dump of the whole dict the request holds
WriteBack(pf_now, pf_out) == IF pf_out = <<>> THEN pf_now ELSE pf_out

\* After the catalog is known: load Progress, classify, and either suspend
\* in ask_question or finish a path that asks nothing.
Proceed(p, c, qf) ==
    LET c1 == [c EXCEPT !.qf = qf, !.pf = progress_file]
        probe == RequestOut(c1, AgentRaises)
    IN  IF AsksAgent(probe) THEN
            /\ inflight' = [inflight EXCEPT ![p] = [c1 EXCEPT !.pc = "asking"]]
            /\ progress_file' = progress_file
        ELSE
            /\ inflight' = [inflight EXCEPT ![p] =
                              [c1 EXCEPT !.pc = "done",
                                         !.out = [pf |-> probe.pf,
                                                  result |-> probe.result,
                                                  tr |-> probe.tr]]]
            /\ progress_file' = WriteBack(progress_file, probe.pf)

\* A request arrives; with no catalog file it suspends in the generator.
BeginRequest(p) ==
    /\ inflight[p].pc = "idle"
    /\ inflight[p].n < MaxCalls
    /\ \E op \in {"start_workflow", "process_next_question"},
          h \in {"H1"},
          v \in {Verdict(TRUE, FALSE), Verdict(TRUE, TRUE), ClassifierRaises} :
        LET c == [NoRequest(inflight[p].n + 1) EXCEPT !.op = op, !.h = h, !.v = v]
        IN  IF questions_file = <<>> THEN
                /\ inflight' = [inflight EXCEPT ![p] = [c EXCEPT !.pc = "generating"]]
                /\ UNCHANGED <<questions_file, progress_file>>
            ELSE
                /\ Proceed(p, c, questions_file)
                /\ UNCHANGED questions_file
    /\ UNCHANGED <<call, trace, result, conversation, database, tenants, singleton>>

\* The generator returns to a request that found no catalog file: the request
\* writes the file (process.py 44-45) and goes on with the list it was given.
EndGenerate(p) ==
    /\ inflight[p].pc = "generating"
    /\ \E g \in {GenOk(1), GenOk(MaxN), GenError} :
        LET iq == initialize_questions(<<>>, g)
        IN  IF iq.raised THEN
                /\ inflight' = [inflight EXCEPT ![p] =
                                  [@ EXCEPT !.pc = "done",
                                            !.out = [pf |-> <<>>,
                                                     result |-> Raised("generate_questions"),
                                                     tr |-> iq.tr]]]
                /\ UNCHANGED <<questions_file, progress_file>>
            ELSE
                /\ questions_file' = iq.qf
                /\ Proceed(p, inflight[p], iq.qf)
    /\ UNCHANGED <<call, trace, result, conversation, database, tenants, singleton>>

\* The agent returns (or raises) to a suspended request, which finishes.
EndAsk(p) ==
    /\ inflight[p].pc = "asking"
    /\ \E a \in {AgentReply("R1"), AgentRaises} :
        LET out == RequestOut(inflight[p], a)
        IN  /\ inflight' = [inflight EXCEPT ![p] =
                              [@ EXCEPT !.pc = "done",
                                        !.out = [pf |-> out.pf, result |-> out.result,
                                                 tr |-> out.tr]]]
            /\ progress_file' = WriteBack(progress_file, out.pf)
    /\ UNCHANGED <<questions_file, call, trace, result, conversation, database, tenants, singleton>>

\* The response is sent; the task can serve the user's next request.
Respond(p) ==
    /\ inflight[p].pc = "done"
    /\ inflight' = [inflight EXCEPT ![p] = NoRequest(@.n)]
    /\ UNCHANGED <<questions_file, progress_file, call, trace, result, conversation, database, tenants, singleton>>

NextConcurrent ==
    \E p \in Procs :
        \/ BeginRequest(p)
        \/ EndGenerate(p)
        \/ EndAsk(p)
        \/ Respond(p)

SpecConcurrent == Init /\ [][NextConcurrent]_vars

\* request p is a finished process_next_question that loaded cursor c, had
\* the agent serve catalog[c] and advanced to c + 1
ServedFrom(p, c) ==
    /\ inflight[p].pc = "done"
    /\ inflight[p].op = "process_next_question"
    /\ load_progress(inflight[p].pf).current_question_index = c
    /\ inflight[p].out.result.status = "in_progress"
    /\ inflight[p].out.result.question_number = c + 1
    /\ \E k \in 1..Len(inflight[p].out.tr) :
          /\ inflight[p].out.tr[k].ev = "ask_question"
          /\ inflight[p].out.tr[k].question = At(inflight[p].qf[1].questions, c)
          /\ ~inflight[p].out.tr[k].ret.raised

\* C19: two overlapping process_next_question calls of one user lose an
\* update: when both loaded cursor c and both had the agent serve
\* catalog[c], the persisted cursor is c + 1, the value each of them wrote.
C19_LostUpdate ==
    \A c \in 0..MaxN :
        (ServedFrom("p1", c) /\ ServedFrom("p2", c)) =>
            Progress.current_question_index = c + 1
\* both calls loaded cursor 1, both served catalog[1], the file says 2
C19_Witness ==
    /\ ServedFrom("p1", 1)
    /\ ServedFrom("p2", 1)
    /\ Progress.current_question_index = 2

\* the dict handed to the last save_progress of the last call
LastSaved == ProgressWrites[Len(ProgressWrites)].progress_data

\* C21: with no Progress file load_progress gives the zero state; after a
\* save, load_progress gives back the cursor, completed list, answers and
\* last_ai_response of the dict that was saved.
C21_ProgressRoundTrip ==
    /\ progress_file = <<>> =>
          /\ Progress.current_question_index = 0
          /\ Progress.completed_questions = <<>>
          /\ DOMAIN Progress.answers = {}
    /\ Len(ProgressWrites) > 0 =>
          /\ progress_file # <<>>
          /\ Progress.current_question_index = LastSaved.current_question_index
          /\ Progress.completed_questions = LastSaved.completed_questions
          /\ Progress.answers = LastSaved.answers
          /\ Progress.last_ai_response = LastSaved.last_ai_response
\* a saved dict with two answers (one of them a correction), a completed
\* question and a reply is read back
C21_Witness ==
    /\ Len(ProgressWrites) = 1
    /\ LastSaved.current_question_index = 2
    /\ LastSaved.completed_questions = <<0>>
    /\ DOMAIN LastSaved.answers = {0, 1}
    /\ LastSaved.answers[1].wants_update
    /\ LastSaved.last_ai_response = "R2"
    /\ Progress.answers[1].human_response = "H2"

\* C32: the generator is asked at most once for a user and the catalog file
\* is written at most once, also when two first calls overlap: whenever a
\* generator call returns to a request, no catalog is persisted yet, and a
\* persisted catalog is never written again.
C32_CatalogGeneratedOnce ==
    [][/\ \A p \in Procs :
             (inflight[p].pc = "generating" /\ inflight'[p].pc # "generating")
                 => questions_file = <<>>
       /\ questions_file # <<>> => questions_file' = questions_file
      ]_vars

----------------------------------------------------------------------------
(* The HTTP endpoint POST /tax/workflow (src/app.py 50-143): validation of *)
(* the request, dispatch on the reply text, and the response.  The walk    *)
(* through the catalog is cut at MaxWalk.                                  *)

\* str.strip() and str.lower() on the texts of the explored requests
str_strip(x) ==
    CASE x = " " -> ""
      [] x = " START " -> "START"
      [] x = " start " -> "start"
      [] x = " individual " -> "individual"
      [] OTHER -> x
str_lower(x) ==
    CASE x = "Company" -> "company"
      [] x = " Individual " -> " individual "
      [] x = "START" -> "start"
      [] x = " START " -> " start "
      [] OTHER -> x

\* TaxWorkflowRequest bodies in the explored runs
Requests ==
    [user_id : {"", " ", "u1"},
     client_id : {"", "C1"},
     reference : {"company", "individual", "Company", "partner"},
     human_response : {PyNone, "H1", "start", " START "}]

\* Mutant of ValidationDetail: the client id is not looked at.
ValidationDetail_SkipsClientId(request) ==
    IF request.user_id = "" \/ str_strip(request.user_id) = ""
    THEN "User ID cannot be empty"
    ELSE IF str_lower(request.reference) \notin {"company", "individual"}
    THEN "Reference must be 'company' or 'individual'"
    ELSE ""

\* app.py 85-92: the detail of the 400 raised, "" when the request passes
ValidationDetail(request) ==
    IF request.user_id = "" \/ str_strip(request.user_id) = ""
    THEN "User ID cannot be empty"
    ELSE IF request.client_id = ""
    THEN "Client ID cannot be empty"
    ELSE IF str_lower(request.reference) \notin {"company", "individual"}
    THEN "Reference must be 'company' or 'individual'"
    ELSE ""

\* app.py 102: request.human_response and ....strip().lower() == "start"
SaysStart(request) ==
    /\ request.human_response # PyNone
    /\ request.human_response # ""
    /\ str_lower(str_strip(request.human_response)) = "start"

\* result.get(key): None when the method's result has no such key
ResultGet(r, key) == IF key \in DOMAIN r THEN r[key] ELSE PyNone

\* app.py 113-143: the response built from the method's result; an exception
\* of the method becomes a 500
Response(r) ==
    IF r.status = "exception" THEN
        [status |-> "http_error", status_code |-> 500]
    ELSE IF r.status = "completed" THEN
        [status |-> "completed",
         total_questions |-> r.total_questions,
         completed_questions |-> r.completed_questions,
         final_response |-> ResultGet(r, "final_response")]
    ELSE
        [status |-> r.status,
         question_number |-> r.question_number,
         total_questions |-> r.total_questions,
         question |-> r.question,
         ai_response |-> r.ai_response,
         completed |-> r.completed,
         validation_result |-> ResultGet(r, "validation_result")]

CommitResponse(out) ==
    /\ questions_file' = out.qf
    /\ progress_file' = IF out.pf = <<>> THEN progress_file ELSE out.pf
    /\ trace' = out.tr
    /\ result' = Response(out.result)
    /\ UNCHANGED <<conversation, inflight, database, tenants, singleton>>

\* a request that fails validation: HTTPException(400) before anything else
RejectRequest ==
    \E request \in Requests :
        /\ ValidationDetail(request) # ""
        /\ call' = [op |-> "tax_workflow_endpoint", request |-> request,
                    before |-> <<questions_file, progress_file, conversation>>]
        /\ result' = [status |-> "http_error", status_code |-> 400,
                      detail |-> ValidationDetail(request)]
        /\ trace' = <<>>
        /\ UNCHANGED <<questions_file, progress_file, conversation, inflight, database, tenants, singleton>>

\* app.py 102-106
StartRequest ==
    /\ load_progress(progress_file).current_question_index < MaxWalk
    /\ \E request \in Requests, g \in GenChoices, a \in AgentOutcomes :
        /\ ValidationDetail(request) = ""
        /\ SaysStart(request)
        /\ call' = [op |-> "start_workflow", request |-> request,
                    loaded |-> load_progress(progress_file)]
        /\ CommitResponse(start_workflow(questions_file, progress_file, g, a))

\* app.py 107-111
AnswerRequest ==
    /\ load_progress(progress_file).current_question_index < MaxWalk
    /\ \E request \in Requests, g \in GenChoices, v \in ClassifierOutcomes,
          a \in AgentOutcomes :
        /\ ValidationDetail(request) = ""
        /\ ~SaysStart(request)
        /\ call' = [op |-> "process_next_question", request |-> request,
                    human_response |-> request.human_response,
                    loaded |-> load_progress(progress_file)]
        /\ CommitResponse(process_next_question(questions_file, progress_file,
                                                request.human_response, g, v, a))

NextEndpoint == RejectRequest \/ StartRequest \/ AnswerRequest

SpecEndpoint == Init /\ [][NextEndpoint]_vars

\* the last request was answered 400 and nothing was read, written or asked
Rejected ==
    /\ result.status = "http_error"
    /\ result.status_code = 400
    /\ trace = <<>>
    /\ call.op = "tax_workflow_endpoint"
    /\ call.before = <<questions_file, progress_file, conversation>>

\* C22 as stated: a request with an empty user id, an empty client id, or a
\* client type other than "company" / "individual" is rejected with a client
\* error before any state is read or written and before any collaborator is
\* invoked.
C22_InvalidRequestRejected ==
    ("request" \in DOMAIN call
        /\ (\/ call.request.user_id = ""
            \/ call.request.client_id = ""
            \/ call.request.reference \notin {"company", "individual"}))
    => Rejected

\* C22 amended: the client type is compared in lower case; a request whose
\* user id is blank, whose client id is empty, or whose client type is, in
\* lower case, neither "company" nor "individual" is rejected with a 400
\* before any state is read or written and before any collaborator is invoked.
C22_InvalidRequestRejected_Amended ==
    ("request" \in DOMAIN call
        /\ (\/ str_strip(call.request.user_id) = ""
            \/ call.request.client_id = ""
            \/ str_lower(call.request.reference) \notin {"company", "individual"}))
    => Rejected
\* a request with client type "partner" is rejected while the user's files
\* exist; they are as they were
C22_Witness ==
    /\ Rejected
    /\ call.request.user_id = "u1"
    /\ call.request.client_id = "C1"
    /\ call.request.reference = "partner"
    /\ progress_file # <<>>
    /\ Progress.current_question_index = 1

\* C23: a "started" or "in_progress" result carries a question_number in
\* 1..N, and a call that finds the cursor at N (the last question has been
\* served) returns "completed", not a further question.
C23_QuestionNumberInRange ==
    /\ result.status \in {"started", "in_progress"} =>
          /\ result.question_number >= 1
          /\ result.question_number <= N
          /\ result.total_questions = N
    /\ (/\ call.op \in {"start_workflow", "process_next_question"}
        /\ result.status # "exception"
        /\ call.loaded.current_question_index = N)
       => result.status = "completed"
\* question 3 of 3 was served and confirmed questions 0 and 1 are on file;
\* the next call ends the workflow
C23_Witness ==
    /\ TerminalCase
    /\ N = 3
    /\ call.loaded.completed_questions = <<0, 1>>
    /\ result.status = "completed"
    /\ Progress.current_question_index = 3

\* the last call was a process_next_question that took the terminal path and
\* returned "completed"
TerminalCompleted == TerminalCase /\ result.status = "completed"

\* C24 as stated: a "completed" result of the terminal path reports
\* completed_questions equal to total_questions.
C24_TerminalReportsAll ==
    TerminalCompleted => result.completed_questions = result.total_questions

\* C24 amended: a "completed" result of the terminal path reports the number
\* of indices in completed_questions, N-1 among them; that number is
\* total_questions exactly when every earlier index had been confirmed before
\* the call, which is not the case for an index served and then passed over
\* by a start_workflow call.
C24_TerminalReportsConfirmed ==
    TerminalCompleted =>
        /\ result.total_questions = N
        /\ result.completed_questions = Len(Progress.completed_questions)
        /\ InList(N - 1, Progress.completed_questions)
        /\ result.completed_questions >= 1
        /\ result.completed_questions <= N
        /\ (result.completed_questions = N
              <=> \A i \in 0..(N - 2) : InList(i, call.loaded.completed_questions))
\* three start_workflow calls moved the cursor to 3 with nothing confirmed;
\* the terminal call reports 1 of 3
C24_Witness ==
    /\ TerminalCompleted
    /\ N = 3
    /\ call.loaded.completed_questions = <<>>
    /\ result.completed_questions = 1
    /\ result.total_questions = 3

\* one more on-topic wants-update reply, answered by the agent, after which
\* the cursor is where it was and the result names the same question
UpdateTurnStays ==
    /\ \E h \in HumanReplies, r \in Replies :
          DoProcessNextQuestion(h, GenError, Verdict(TRUE, TRUE), AgentReply(r))
    /\ load_progress(progress_file').current_question_index
          = load_progress(progress_file).current_question_index
    /\ result'.status = "in_progress"
    /\ result'.question_number = load_progress(progress_file).current_question_index

\* C25: the wants-update loop has no cap.  An on-topic wants-update turn at
\* cursor c (0 < c < N) returns in_progress with question_number c and
\* leaves the cursor at c, and in the state it leaves (as in every state with
\* 0 < c < N) a further such turn with the same outcome is possible; so k
\* such replies in a row give k such results for every k.
C25_UpdateLoopUncapped ==
    /\ WantsUpdateCase =>
          /\ result.status = "in_progress"
          /\ result.question_number = call.loaded.current_question_index
          /\ Progress.current_question_index = call.loaded.current_question_index
          /\ ENABLED UpdateTurnStays
    /\ (Progress.current_question_index > 0 /\ Progress.current_question_index < N)
          => ENABLED UpdateTurnStays
\* the second correction in a row of question 1 of 3: the previous turn had
\* left wants_update = true for index 0, and the cursor is still 1
C25_Witness ==
    /\ WantsUpdateCase
    /\ N = 3
    /\ call.loaded.current_question_index = 1
    /\ 0 \in DOMAIN call.loaded.answers
    /\ call.loaded.answers[0].wants_update
    /\ result.question_number = 1
    /\ Progress.current_question_index = 1
    /\ Progress.completed_questions = <<>>

----------------------------------------------------------------------------
(* Questions passed over (process.py 193-225, 237-283) *)

\* the indices before the one last served that are not in completed_questions
Skipped(progress) ==
    {i \in 0..(progress.current_question_index - 2) :
        ~InList(i, progress.completed_questions)}

\* C33: no question is skipped: every index strictly below
\* current_question_index - 1 is in completed_questions, in every state
\* reachable by start_workflow and process_next_question calls.
C33_NoQuestionSkipped == Skipped(Progress) = {}

\* C33 amended: process_next_question never passes over a question, and a
\* start_workflow call passes over at most the question served last before
\* it; so every index strictly below current_question_index - 1 is in
\* completed_questions as long as start_workflow is called only with the
\* cursor at 0.
C33_SkipsOnlyByStart ==
    [][/\ call'.op = "process_next_question" =>
              Skipped(Progress') \subseteq Skipped(Progress)
       /\ call'.op = "start_workflow" =>
              /\ Skipped(Progress') \subseteq
                    Skipped(Progress) \cup {Progress.current_question_index - 1}
              /\ Progress.current_question_index = 0 => Skipped(Progress') = {}
      ]_vars
\* start_workflow on a workflow at question 1, not yet confirmed: question 2
\* is served, the cursor is 2 and index 0 is not completed
C33_Witness ==
    /\ call.op = "start_workflow"
    /\ call.loaded.current_question_index = 1
    /\ result.status = "started"
    /\ result.question_number = 2
    /\ Progress.current_question_index = 2
    /\ Skipped(Progress) = {0}

----------------------------------------------------------------------------
(* Progress of the walk: one call at a time, collaborators that answer, a  *)
(* user who may go off topic or ask for corrections any number of times    *)
(* but does not withhold the confirmation for ever.                        *)

GenAnswers == {GenOk(0), GenOk(2), GenOk(MaxN)}
AgentAnswers == {AgentReply("R1")}

\* a reply the classifier finds on topic and confirming
LiveConfirm ==
    \E h \in HumanReplies, g \in GenAnswers, a \in AgentAnswers :
        DoProcessNextQuestion(h, g, Verdict(TRUE, FALSE), a)

\* a reply the classifier finds on topic and asking for a change
LiveCorrect ==
    \E h \in HumanReplies, g \in GenAnswers, a \in AgentAnswers :
        DoProcessNextQuestion(h, g, Verdict(TRUE, TRUE), a)

\* a reply the classifier finds off topic
LiveOffTopic ==
    \E h \in HumanReplies, g \in GenAnswers, a \in AgentAnswers, u \in BOOLEAN :
        DoProcessNextQuestion(h, g, Verdict(FALSE, u), a)

NextLive == LiveConfirm \/ LiveCorrect \/ LiveOffTopic

SpecLive == Init /\ [][NextLive]_vars /\ WF_vars(LiveConfirm)

\* C34: with one call at a time and collaborators that never fail, a user
\* who eventually confirms each pending question is eventually told
\* "completed", with current_question_index = N.
C34_EventuallyCompleted ==
    <>(/\ call.op = "process_next_question"
       /\ result.status = "completed"
       /\ questions_file # <<>>
       /\ Progress.current_question_index = N)
\* the walk through 3 questions ended after a correction of question 2
C34_Witness ==
    /\ call.op = "process_next_question"
    /\ result.status = "completed"
    /\ N = 3
    /\ Progress.current_question_index = 3
    /\ Len(Progress.completed_questions) = 3
    /\ 1 \in DOMAIN Progress.answers
    /\ Progress.answers[1].human_response = "H2"

----------------------------------------------------------------------------
(* After the last question (process.py 97-143, 251-257) *)

\* the catalog is persisted and the persisted cursor is at its end
AtCompletion == questions_file # <<>> /\ Progress.current_question_index = N

\* C35: completion is absorbing.  Once the persisted cursor equals N, every
\* later call leaves the catalog and the cursor as they are and drops nothing
\* from completed_questions; start_workflow returns "completed", and so does
\* process_next_question unless the agent it asks raises.
C35_CompletionAbsorbing ==
    [][AtCompletion =>
          /\ questions_file' = questions_file
          /\ Progress'.current_question_index = N
          /\ \A k \in 1..Len(Progress.completed_questions) :
                InList(Progress.completed_questions[k], Progress'.completed_questions)
          /\ \/ result'.status = "completed"
             \/ /\ call'.op = "process_next_question"
                /\ N > 0
                /\ result' = Raised("ask_question")
          /\ call'.op = "start_workflow" => result'.status = "completed"
      ]_vars
\* start_workflow on a finished walk through 3 questions
C35_Witness ==
    /\ call.op = "start_workflow"
    /\ N = 3
    /\ call.loaded.current_question_index = 3
    /\ Len(call.loaded.completed_questions) = 3
    /\ result.status = "completed"
    /\ AtCompletion
    /\ Len(Progress.completed_questions) = 3

----------------------------------------------------------------------------
(* What the classifier is given (process.py 97-101, 146-151) *)

\* C27: in the normal case the classifier is called with the catalog
\* question before the persisted cursor and with the last_ai_response that is
\* persisted when the call begins; when the call before it was a wants-update
\* turn, that is the agent's reply to that correction.
C27_ClassifierSeesPersistedReply ==
    [][(call'.op = "process_next_question" /\ Len(ClassifierCalls') = 1) =>
          /\ Progress.current_question_index > 0
          /\ Progress.current_question_index < N
          /\ ClassifierCalls'[1].Question
                = At(Catalog, Progress.current_question_index - 1)
          /\ ClassifierCalls'[1].AI_agent_rsponce = GetLastAiResponse(Progress)
          /\ ClassifierCalls'[1].human_responce = call'.human_response
          /\ WantsUpdateCase =>
                ClassifierCalls'[1].AI_agent_rsponce = result.ai_response
      ]_vars
\* the second reply about question 1: the first was a correction, the agent
\* answered the catalog question with R1 and the correction with R2, and the
\* classifier is now given R2
C27_Witness ==
    /\ NormalCaseWith(TRUE, FALSE)
    /\ call.loaded.current_question_index = 1
    /\ 0 \in DOMAIN call.loaded.answers
    /\ call.loaded.answers[0].wants_update
    /\ call.loaded.answers[0].ai_response = "R1"
    /\ call.loaded.last_ai_response = "R2"
    /\ ClassifierCalls[1].Question = At(Catalog, 0)
    /\ ClassifierCalls[1].AI_agent_rsponce = "R2"

----------------------------------------------------------------------------
(* Order of the steps of one call (process.py 144-235) *)

\* process_next_question was called with 0 < current_question_index < N and
\* the classifier found the reply on topic
OnTopicCall ==
    /\ call.op = "process_next_question"
    /\ call.loaded.current_question_index > 0
    /\ call.loaded.current_question_index < N
    /\ Len(ClassifierCalls) >= 1
    /\ ~ClassifierCalls[1].ret.raised
    /\ ClassifierCalls[1].ret.is_tax_related

\* C28: a process_next_question call in the normal case with an on-topic
\* reply invokes the classifier once, then the Answering Agent once, then
\* writes Progress once; there is no write of Progress before the agent has
\* returned, and none at all when the agent raises.
C28_ClassifyAskSave ==
    OnTopicCall =>
        /\ Len(ClassifierCalls) = 1
        /\ Len(AgentCalls) = 1
        /\ trace[1].ev = "validation_identification"
        /\ trace[2].ev = "ask_question"
        /\ IF trace[2].ret.raised
           THEN /\ Len(trace) = 2
                /\ result = Raised("ask_question")
                /\ progress_file = save_progress(call.loaded)
           ELSE /\ Len(trace) = 3
                /\ trace[3].ev = "save_progress"
                /\ progress_file = save_progress(trace[3].progress_data)
                /\ result.status = "in_progress"
\* a confirmation of question 1 of 3: classifier, then the agent asked
\* question 2, then the write that moves the cursor to 2
C28_Witness ==
    /\ OnTopicCall
    /\ N = 3
    /\ call.loaded.current_question_index = 1
    /\ ~ClassifierCalls[1].ret.validation_indenty
    /\ trace[2].question = At(Catalog, 1)
    /\ ~trace[2].ret.raised
    /\ Len(ProgressWrites) = 1
    /\ trace[3].progress_data.current_question_index = 2
    /\ result.question_number = 2

----------------------------------------------------------------------------
(* Session memory next to the workflow files: the workflow methods write   *)
(* questions_<user>.json and progress_<user>.json, the memory functions    *)
(* and the passing of time act on the Redis key.                           *)

GetConversationMemory ==
    \E get_ok \in BOOLEAN :
        /\ call' = CallOf("get_conversation_memory", PyNone, PyNone)
        /\ CommitMemory([conv |-> conversation,
                         result |-> [status |-> "returned",
                                     value |-> get_conversation_memory(conversation,
                                                                       get_ok)],
                         tr |-> <<RedisGet(get_ok)>>])

\* The explored session: the generator returns MaxN questions, the agent
\* answers, the user confirms or corrects; the memory functions are called
\* with the ids of the session, and a save or a delete can fail.
SessionStartWorkflow == DoStartWorkflow(GenOk(MaxN), AgentReply("R1"))

SessionProcessNextQuestion ==
    \E v \in {Verdict(TRUE, FALSE), Verdict(TRUE, TRUE)} :
        DoProcessNextQuestion("H1", GenOk(MaxN), v, AgentReply("R1"))

SessionAskQuestion ==
    /\ Len(StoredMessages) < 2 * MaxTurns
    /\ \E a \in {AgentReply("R1"), AgentRaises}, set_ok \in BOOLEAN :
          /\ call' = CallOf("ask_question", "C1", "company")
          /\ CommitMemory(ask_question(conversation, "Q0", "C1", "company",
                                       a, TRUE, TRUE, set_ok))

SessionStoreConversationMemory ==
    \E messages \in {<<>>, StoredMessages}, set_ok \in BOOLEAN :
        /\ call' = CallOf("store_conversation_memory", "C1", "company")
        /\ CommitMemory([conv |-> store_conversation_memory(conversation, messages,
                                     "C1", "company", <<>>, set_ok),
                         result |-> [status |-> "returned", value |-> PyNone],
                         tr |-> <<RedisSetex(set_ok)>>])

NextSession ==
    \/ SessionStartWorkflow
    \/ SessionProcessNextQuestion
    \/ SessionAskQuestion
    \/ SessionStoreConversationMemory
    \/ GetConversationMemory
    \/ ClearConversationMemory
    \/ Elapse

SpecSession == Init /\ [][NextSession]_vars

\* the step wrote the record
Saved == \E k \in 1..Len(trace) : trace[k] = RedisSetex(TRUE)

\* C30: a load of a record that is absent (never written, deleted by
\* clear_conversation_memory, or dropped by Redis when its time ran out)
\* returns empty messages and empty metadata; every save leaves the record
\* with the full TTL; the passing of time and clear_conversation_memory leave
\* the catalog file and the Progress file as they were.
C30_AbsentMemoryIsEmpty ==
    [][/\ (call'.op = "get_conversation_memory" /\ conversation = <<>>) =>
              /\ result'.value.messages = <<>>
              /\ result'.value.metadata = EmptyDict
       /\ (call'.op = "clear_conversation_memory" /\ trace' = <<RedisDelete(TRUE)>>) =>
              conversation' = <<>>
       /\ (call'.op = "elapse" /\ conversation[1].ttl <= TTL \div 2) =>
              conversation' = <<>>
       /\ Saved' => (conversation' # <<>> /\ conversation'[1].ttl = TTL)
       /\ call'.op \in {"elapse", "clear_conversation_memory"} =>
              /\ questions_file' = questions_file
              /\ progress_file' = progress_file
      ]_vars
\* the record of a user at question 2 of 3, holding two turns, was cleared:
\* a load now gives the empty defaults and the two files are in place
C30_Witness ==
    /\ call.op = "clear_conversation_memory"
    /\ call.before # <<>>
    /\ Len(call.before[1].value.messages) = 2
    /\ call.before[1].ttl = TTL \div 2
    /\ conversation = <<>>
    /\ get_conversation_memory(conversation, TRUE).messages = <<>>
    /\ N = 3
    /\ Progress.current_question_index = 2

----------------------------------------------------------------------------
(* The field store: the MCP tools of src/mcp_functions.py (reads) and      *)
(* src/mcp_update_functions.py (updates) over the tables internal_data,    *)
(* individual, company and contact_info.  A tool's arguments are the       *)
(* external client id (practice_id), the client type (reference) and, for  *)
(* an update, the optional column values.                                  *)

PracticeIds == {"P1", "P2", "P3"}
StoreReferences == {"company", "individual", " Individual "}
StoreTexts == {"A", "B"}
OptionalTexts == {PyNone} \cup StoreTexts

\* What a tool call gives its caller: a value (<<>> for None, <<d>> for the
\* dict d) or an exception.
ToolReturned(value) == [status |-> "returned", value |-> value]
ToolRaised(error) == [status |-> "raised", error |-> error]

\* ref_type = (reference or "").lower().strip()
ref_type_of(reference) ==
    str_strip(str_lower(IF reference = PyNone THEN "" ELSE reference))

get_table_and_pk(reference) ==
    LET ref == ref_type_of(reference)
    IN  IF ref = "company" THEN [ok |-> TRUE, table |-> "company", pk_col |-> "company_id"]
        ELSE IF ref = "individual" THEN [ok |-> TRUE, table |-> "individual", pk_col |-> "id"]
        ELSE [ok |-> FALSE]

\* Mutant of resolve_reference_id_from_practice: the client type is left out
\* of the WHERE clause.
resolve_reference_id_from_practice_AnyType(db, practice_id, reference) ==
    LET rows == {r \in db.internal_data : r.practice_id = practice_id}
    IN  IF rows = {} THEN <<>> ELSE (CHOOSE r \in rows : TRUE).reference_id

\* SELECT reference_id FROM internal_data WHERE practice_id = %s AND
\* reference = %s LIMIT 1; None when no row or a NULL reference_id.
resolve_reference_id_from_practice(db, practice_id, reference) ==
    LET ref_type == str_lower(reference)
        rows == {r \in db.internal_data :
                    r.practice_id = practice_id /\ r.reference = ref_type}
    IN  IF rows = {} THEN <<>> ELSE (CHOOSE r \in rows : TRUE).reference_id

\* The dict of the columns whose argument is not None.
FieldsOf(args) == [c \in {k \in DOMAIN args : args[k] # PyNone} |-> args[c]]

build_update_query(table, pk_col, pk_value, fields) ==
    IF DOMAIN fields = {} THEN [built |-> FALSE]
    ELSE [built |-> TRUE, table |-> table, pk_col |-> pk_col,
          pk_value |-> pk_value, fields |-> fields]

\* cur.execute(UPDATE table SET ... WHERE pk = %s LIMIT 1); conn.commit().
\* rowcount counts the matched row when the connection reports found rows
\* and the changed row otherwise.
ExecuteUpdate(db, q, found_rows) ==
    LET rows == db[q.table]
    IN  IF q.pk_value \notin DOMAIN rows THEN [db |-> db, rowcount |-> 0]
        ELSE LET old == rows[q.pk_value]
                 new == [c \in DOMAIN old |->
                            IF c \in DOMAIN q.fields THEN q.fields[c] ELSE old[c]]
             IN  [db |-> [db EXCEPT ![q.table] = [rows EXCEPT ![q.pk_value] = new]],
                  rowcount |-> IF new # old \/ found_rows THEN 1 ELSE 0]

NotUpdated == [success |-> FALSE, rows_affected |-> 0, updated |-> <<>>]
UpdateReport(rowcount, fields) ==
    [success |-> rowcount > 0, rows_affected |-> rowcount, updated |-> fields]

\* the contact_info row of a client: ORDER BY status DESC, id ASC LIMIT 1
ContactRow(db, ref_type, reference_id) ==
    LET ids == {i \in DOMAIN db.contact_info :
                   /\ db.contact_info[i].reference = ref_type
                   /\ db.contact_info[i].reference_id = reference_id}
    IN  IF ids = {} THEN <<>>
        ELSE <<CHOOSE i \in ids : \A j \in ids :
                  \/ db.contact_info[i].status > db.contact_info[j].status
                  \/ /\ db.contact_info[i].status = db.contact_info[j].status
                     /\ i <= j>>

\* " ".join of the name parts that are set
FullName(row) ==
    SelectSeq(<<row.first_name, row.middle_name, row.last_name>>,
              LAMBDA part : part # PyNone /\ part # "")

get_client_full_legal_name(db, practice_id, reference) ==
    LET ref_type == ref_type_of(reference)
        t == get_table_and_pk(ref_type)
        rid == resolve_reference_id_from_practice(db, practice_id, ref_type)
    IN  IF ~t.ok THEN ToolRaised("ValueError")
        ELSE IF rid = <<>> THEN ToolReturned(<<>>)
        ELSE IF rid[1] \notin DOMAIN db[t.table] THEN ToolReturned(<<>>)
        ELSE IF ref_type = "company"
        THEN ToolReturned(<<[reference |-> ref_type, practice_id |-> practice_id,
                             full_legal_name |-> <<db.company[rid[1]].name>>]>>)
        ELSE ToolReturned(<<[reference |-> ref_type, practice_id |-> practice_id,
                             full_legal_name |-> FullName(db.individual[rid[1]])]>>)

get_client_date_of_birth(db, practice_id, reference) ==
    LET ref_type == ref_type_of(reference)
        rid == resolve_reference_id_from_practice(db, practice_id, ref_type)
    IN  IF ref_type # "individual" THEN ToolReturned(<<>>)
        ELSE IF rid = <<>> THEN ToolReturned(<<>>)
        ELSE IF rid[1] \notin DOMAIN db.individual THEN ToolReturned(<<>>)
        ELSE ToolReturned(<<[reference |-> ref_type, practice_id |-> practice_id,
                             date_of_birth |-> db.individual[rid[1]].birth_date]>>)

get_client_current_us_address(db, practice_id, reference) ==
    LET ref_type == ref_type_of(reference)
        rid == resolve_reference_id_from_practice(db, practice_id, ref_type)
    IN  IF rid = <<>> THEN ToolReturned(<<>>)
        ELSE LET row == ContactRow(db, ref_type, rid[1])
             IN  IF row = <<>> THEN ToolReturned(<<>>)
                 ELSE ToolReturned(<<[reference |-> ref_type, practice_id |-> practice_id,
                                      address1 |-> db.contact_info[row[1]].address1,
                                      city |-> db.contact_info[row[1]].city]>>)

update_individual_name(db, practice_id, reference, args, found_rows) ==
    LET ref_type == ref_type_of(reference)
        rid == resolve_reference_id_from_practice(db, practice_id, ref_type)
        fields == FieldsOf(args)
    IN  IF ref_type # "individual" THEN [db |-> db, result |-> ToolReturned(<<NotUpdated>>)]
        ELSE IF rid = <<>> THEN [db |-> db, result |-> ToolReturned(<<NotUpdated>>)]
        ELSE LET built == build_update_query("individual", "id", rid[1], fields)
             IN  IF ~built.built
                 THEN [db |-> db, result |-> ToolReturned(<<NotUpdated>>)]
                 ELSE LET done == ExecuteUpdate(db, built, found_rows)
                      IN  [db |-> done.db,
                           result |-> ToolReturned(<<UpdateReport(done.rowcount, fields)>>)]

update_client_primary_contact_address(db, practice_id, reference, args, found_rows) ==
    LET ref_type == ref_type_of(reference)
        rows == {r \in db.internal_data :
                    r.practice_id = practice_id /\ r.reference = ref_type}
        reference_id == IF rows = {} THEN <<>> ELSE (CHOOSE r \in rows : TRUE).reference_id
        fields == FieldsOf(args)
    IN  IF reference_id = <<>> THEN [db |-> db, result |-> ToolReturned(<<NotUpdated>>)]
        ELSE LET existing == ContactRow(db, ref_type, reference_id[1])
             IN  IF existing = <<>> \/ DOMAIN fields = {}
                 THEN [db |-> db, result |-> ToolReturned(<<NotUpdated>>)]
                 ELSE LET done == ExecuteUpdate(db,
                                      [table |-> "contact_info", pk_col |-> "id",
                                       pk_value |-> existing[1], fields |-> fields],
                                      found_rows)
                      IN  [db |-> done.db,
                           result |-> ToolReturned(<<UpdateReport(done.rowcount, fields)>>)]

update_client_occupation(db, practice_id, reference, args, found_rows) ==
    LET ref_type == ref_type_of(reference)
        t == get_table_and_pk(ref_type)
        reference_id == resolve_reference_id_from_practice(db, practice_id, ref_type)
        fields == FieldsOf(args)
    IN  IF ~t.ok THEN [db |-> db, result |-> ToolRaised("ValueError")]
        ELSE IF reference_id = <<>> \/ args.occupation = PyNone
        THEN [db |-> db, result |-> ToolReturned(<<NotUpdated>>)]
        ELSE LET built == build_update_query(t.table, t.pk_col, reference_id[1], fields)
             IN  IF ~built.built
                 THEN [db |-> db, result |-> ToolReturned(<<NotUpdated>>)]
                 ELSE LET done == ExecuteUpdate(db, built, found_rows)
                      IN  [db |-> done.db,
                           result |-> ToolReturned(<<UpdateReport(done.rowcount, fields)>>)]

\* mcp_update_functions.py 1795-1891: a method outside AVAILABLE_METHODS,
\* None included, is replaced by DEFAULT_METHOD and written
AVAILABLE_METHODS == {"check", "ACH"}
DEFAULT_METHOD == "ACH"

update_individual_refund_method(db, practice_id, reference, args, found_rows) ==
    LET ref_type == ref_type_of(reference)
        rid == resolve_reference_id_from_practice(db, practice_id, "individual")
        requested_method ==
            str_strip(IF args.refund_method = PyNone THEN "" ELSE args.refund_method)
        final_method == IF requested_method \notin AVAILABLE_METHODS
                        THEN DEFAULT_METHOD ELSE requested_method
        fields == [refund_method |-> final_method]
    IN  IF ref_type # "individual" THEN [db |-> db, result |-> ToolReturned(<<NotUpdated>>)]
        ELSE IF rid = <<>> THEN [db |-> db, result |-> ToolReturned(<<NotUpdated>>)]
        ELSE LET built == build_update_query("individual", "id", rid[1], fields)
                 done == ExecuteUpdate(db, built, found_rows)
             IN  [db |-> done.db,
                  result |-> ToolReturned(<<[success |-> TRUE,
                                             rows_affected |-> done.rowcount,
                                             updated |-> fields]>>)]

ReadTools == {"get_client_full_legal_name", "get_client_date_of_birth",
              "get_client_current_us_address"}
UpdateTools == {"update_individual_name", "update_client_primary_contact_address",
                "update_client_occupation", "update_individual_refund_method"}

ToolCall(op, practice_id, reference, args) ==
    [op |-> op, practice_id |-> practice_id, reference |-> reference,
     args |-> args, before |-> database]

CommitTool(c, db, r) ==
    /\ call' = c
    /\ result' = r
    /\ database' = db
    /\ trace' = <<>>
    /\ UNCHANGED <<questions_file, progress_file, conversation, inflight, tenants, singleton>>

GetClientFullLegalName ==
    \E practice_id \in PracticeIds, reference \in StoreReferences :
        CommitTool(ToolCall("get_client_full_legal_name", practice_id, reference, <<>>),
                   database,
                   get_client_full_legal_name(database, practice_id, reference))

GetClientDateOfBirth ==
    \E practice_id \in PracticeIds, reference \in StoreReferences :
        CommitTool(ToolCall("get_client_date_of_birth", practice_id, reference, <<>>),
                   database,
                   get_client_date_of_birth(database, practice_id, reference))

GetClientCurrentUsAddress ==
    \E practice_id \in PracticeIds, reference \in StoreReferences :
        CommitTool(ToolCall("get_client_current_us_address", practice_id, reference, <<>>),
                   database,
                   get_client_current_us_address(database, practice_id, reference))

UpdateIndividualName ==
    \E practice_id \in PracticeIds, reference \in StoreReferences,
       args \in [first_name : OptionalTexts, middle_name : {PyNone},
                 last_name : {PyNone, "B"}],
       found_rows \in BOOLEAN :
        LET out == update_individual_name(database, practice_id, reference, args, found_rows)
        IN  CommitTool(ToolCall("update_individual_name", practice_id, reference, args),
                       out.db, out.result)

UpdateClientPrimaryContactAddress ==
    \E practice_id \in PracticeIds, reference \in StoreReferences,
       args \in [address1 : OptionalTexts, city : {PyNone}],
       found_rows \in BOOLEAN :
        LET out == update_client_primary_contact_address(database, practice_id,
                                                         reference, args, found_rows)
        IN  CommitTool(ToolCall("update_client_primary_contact_address", practice_id,
                                reference, args),
                       out.db, out.result)

UpdateClientOccupation ==
    \E practice_id \in PracticeIds, reference \in StoreReferences,
       args \in [occupation : OptionalTexts],
       found_rows \in BOOLEAN :
        LET out == update_client_occupation(database, practice_id, reference, args,
                                            found_rows)
        IN  CommitTool(ToolCall("update_client_occupation", practice_id, reference, args),
                       out.db, out.result)

UpdateIndividualRefundMethod ==
    \E practice_id \in PracticeIds, reference \in StoreReferences,
       args \in [refund_method : {PyNone, "check", "wire"}],
       found_rows \in BOOLEAN :
        LET out == update_individual_refund_method(database, practice_id, reference,
                                                   args, found_rows)
        IN  CommitTool(ToolCall("update_individual_refund_method", practice_id,
                                reference, args),
                       out.db, out.result)

NextStore ==
    \/ GetClientFullLegalName
    \/ GetClientDateOfBirth
    \/ GetClientCurrentUsAddress
    \/ UpdateIndividualName
    \/ UpdateClientPrimaryContactAddress
    \/ UpdateClientOccupation
    \/ UpdateIndividualRefundMethod

SpecStore == Init /\ [][NextStore]_vars

\* The call's (practice_id, client type) has no internal_data row carrying a
\* reference_id.
NoInternalRecord ==
    /\ call.op \in ReadTools \cup UpdateTools
    /\ ~\E r \in call.before.internal_data :
          /\ r.practice_id = call.practice_id
          /\ r.reference = ref_type_of(call.reference)
          /\ r.reference_id # <<>>

\* C26: when (external client id, client type) resolves to no internal
\* record, a field-group read returns None, a field-group update returns
\* success = false, rows_affected = 0 and an empty updated dict, and the tables
\* are as they were before the call.
C26_UnresolvedClientNotFound ==
    NoInternalRecord =>
        /\ result.status = "returned"
        /\ call.op \in ReadTools => result.value = <<>>
        /\ call.op \in UpdateTools =>
              /\ Len(result.value) = 1
              /\ ~result.value[1].success
              /\ result.value[1].rows_affected = 0
              /\ DOMAIN result.value[1].updated = {}
        /\ database = call.before
\* an update of the name of P3, known as a company only, as an individual,
\* in a database an earlier update has already written to
C26_Witness ==
    /\ NoInternalRecord
    /\ call.op = "update_individual_name"
    /\ call.practice_id = "P3"
    /\ call.args.first_name = "B"
    /\ database.individual[1].last_name = "B"
    /\ ~result.value[1].success

\* the call was an update that returned, and no column value was passed
NoValueSupplied ==
    /\ call.op \in UpdateTools
    /\ result.status = "returned"
    /\ \A c \in DOMAIN call.args : call.args[c] = PyNone

\* C31: an update tool changes only the columns whose value was passed as
\* non-null, to that value, and leaves every other column of every row as it
\* was; a call that passes no value writes nothing and returns success =
\* false, rows_affected = 0 and an empty updated dict.
C31_UpdateWritesSuppliedOnly ==
    (call.op \in UpdateTools /\ result.status = "returned") =>
        /\ database.internal_data = call.before.internal_data
        /\ \A t \in {"individual", "company", "contact_info"} :
              \A i \in DOMAIN database[t] : \A c \in DOMAIN database[t][i] :
                  database[t][i][c] # call.before[t][i][c] =>
                      /\ c \in DOMAIN call.args
                      /\ call.args[c] # PyNone
                      /\ database[t][i][c] = call.args[c]
        /\ NoValueSupplied =>
              /\ database = call.before
              /\ ~result.value[1].success
              /\ result.value[1].rows_affected = 0
              /\ DOMAIN result.value[1].updated = {}


----------------------------------------------------------------------------
(* Several users side by side.  Every call builds a TaxProcessingWorkflow  *)
(* for its user_id (app.py 94-98), whose files are named after the id      *)
(* (process.py 19-24) and whose agent calls use the Redis key of the id.   *)
(* A call that asks the agent is suspended there while other users' calls  *)
(* run; it holds the catalog, the Progress and the memory record it read.  *)

\* the question the method passed to ask_question
AskedQuestion(tr) ==
    LET k == CHOOSE k \in 1..Len(tr) : tr[k].ev = "ask_question" IN tr[k].question

\* a user's call that is over, after n calls of that user
TenantIdle(n) == NoRequest(n) @@ [conv |-> <<>>]

\* A call of user u arrives: the catalog is read or generated, Progress is
\* loaded, the reply is classified; the call finishes or suspends in
\* ask_question.
TenantBegin(u) ==
    LET c0 == tenants.serving[u]
        qpath == QuestionsPath(u)
        ppath == ProgressPath(u)
    IN  /\ c0.pc = "idle"
        /\ c0.n < MaxCalls
        /\ \E op \in {"start_workflow", "process_next_question"},
              v \in {Verdict(TRUE, FALSE), Verdict(TRUE, TRUE)},
              g \in {GenOk(2), GenError} :
            LET iq == initialize_questions(tenants.files[qpath], g)
                c == [c0 EXCEPT !.n = @ + 1, !.op = op, !.h = "H1", !.v = v,
                                !.qf = iq.qf, !.pf = tenants.files[ppath],
                                !.conv = tenants.redis[RedisKey(u)]]
                probe == RequestOut(c, AgentRaises)
            IN  /\ call' = [op |-> op, user_id |-> u, step |-> "begin"]
                /\ IF iq.raised THEN
                        /\ tenants' = [tenants EXCEPT !.serving[u] = TenantIdle(c.n)]
                        /\ result' = Raised("generate_questions")
                        /\ trace' = iq.tr
                   ELSE IF AsksAgent(probe) THEN
                        /\ tenants' = [tenants EXCEPT
                                          !.files[qpath] = iq.qf,
                                          !.serving[u] = [c EXCEPT !.pc = "asking"]]
                        /\ result' = [status |-> "pending"]
                        /\ trace' = iq.tr
                   ELSE
                        /\ tenants' = [tenants EXCEPT
                                          !.files[qpath] = iq.qf,
                                          !.files[ppath] = WriteBack(@, probe.pf),
                                          !.serving[u] = TenantIdle(c.n)]
                        /\ result' = probe.result
                        /\ trace' = probe.tr
        /\ UNCHANGED <<questions_file, progress_file, conversation, inflight, database, singleton>>

\* The agent returns to the suspended call of user u: process_question
\* stores the two turns under the user's key (client.py 364-372), the method
\* saves Progress and returns.
TenantEnd(u) ==
    LET c == tenants.serving[u]
        ppath == ProgressPath(u)
        key == RedisKey(u)
    IN  /\ c.pc = "asking"
        /\ \E a \in {AgentReply("R1"), AgentRaises}, set_ok \in BOOLEAN :
            LET out == RequestOut(c, a)
                mem == ask_question(c.conv, AskedQuestion(out.tr), "C1", "company",
                                    a, TRUE, TRUE, TRUE)
            IN  /\ call' = [op |-> c.op, user_id |-> u, step |-> "end"]
                /\ tenants' = [tenants EXCEPT
                                  !.files[ppath] = WriteBack(@, out.pf),
                                  !.redis[key] = IF a.raised \/ ~set_ok THEN @
                                                 ELSE mem.conv,
                                  !.serving[u] = TenantIdle(c.n)]
                /\ result' = out.result
                /\ trace' = out.tr
        /\ UNCHANGED <<questions_file, progress_file, conversation, inflight, database, singleton>>

NextTenants == \E u \in UserIds : TenantBegin(u) \/ TenantEnd(u)

SpecTenants == Init /\ [][NextTenants]_vars

\* what is persisted for user u
PersistedOf(u) ==
    <<tenants.files[QuestionsPath(u)], tenants.files[ProgressPath(u)],
      tenants.redis[RedisKey(u)]>>

\* C36: a step of a start_workflow or process_next_question call of one
\* user leaves the catalog file, the Progress file and the Session Memory
\* record of every other user as they were, whatever calls of the users
\* overlap.
C36_OtherUsersUntouched ==
    [][\A b \in UserIds :
          (call'.op \in {"start_workflow", "process_next_question"}
              /\ call'.user_id # b)
          => PersistedOf(b)' = PersistedOf(b)]_vars

\* User "ab" finished a call while a call of user "a" was suspended in the
\* agent; both users have a catalog, "ab" has Progress and a memory record.
C36_Witness ==
    /\ call.op \in {"start_workflow", "process_next_question"}
    /\ call.user_id = <<"a", "b">>
    /\ call.step = "end"
    /\ result.status \in {"started", "next_question"}
    /\ tenants.serving[<<"a">>].pc = "asking"
    /\ tenants.serving[<<"a">>].pf # <<>>
    /\ tenants.redis[RedisKey(<<"a">>)] # <<>>
    /\ tenants.files[QuestionsPath(<<"a">>)] # <<>>
    /\ tenants.files[ProgressPath(<<"a", "b">>)] # <<>>
    /\ tenants.files[ProgressPath(<<"a">>)] # tenants.files[ProgressPath(<<"a", "b">>)]
    /\ tenants.redis[RedisKey(<<"a", "b">>)] # <<>>


----------------------------------------------------------------------------
(* The workflow mirror in the memory record *)

\* the record holds a metadata.workflow_state
HasWorkflowState(conv) ==
    conv # <<>> /\ "workflow_state" \in DOMAIN conv[1].value.metadata

\* C37: the metadata.workflow_state that update_workflow_state wrote is
\* still in the user's record after an agent call (ask_question /
\* process_question) for that user.
C37_WorkflowStateSurvivesAgentCall ==
    [][(call'.op = "ask_question" /\ HasWorkflowState(conversation))
          => /\ HasWorkflowState(conversation')
             /\ conversation'[1].value.metadata["workflow_state"]
                   = conversation[1].value.metadata["workflow_state"]]_vars


----------------------------------------------------------------------------
(* The agent singleton: get_or_create_agent (client.py 268-315).  A task   *)
(* takes _client_lock, builds the MCP client and the agent if there is no  *)
(* agent, and returns the agent; it is suspended while it waits for the    *)
(* lock and in await _mcp_client.get_tools().                              *)

\* Mutant of NeedsConstruction: every caller builds.
NeedsConstruction_Always(agent) == TRUE

\* client.py 273: if _agent is None
NeedsConstruction(agent) == agent = <<>>

\* asyncio.Lock.release as the with-block is left (272): the lock is free,
\* the first waiter is the one that gets it
Release(s) == [s EXCEPT !.locked = FALSE]

\* The task holds the lock (272) and runs to its next suspension or to the
\* end: with an agent it returns it (315); without, it builds the client
\* (282-297) and suspends in get_tools (301), unless building raised.
Enter(s, t) ==
    LET c == s.tasks[t]
    IN  IF NeedsConstruction(s.agent) THEN
            {[s EXCEPT !.locked = TRUE,
                       !.mcp_client = <<s.clients_made + 1>>,
                       !.clients_made = @ + 1,
                       !.tasks[t] = [c EXCEPT !.pc = "connecting"]],
             Release([s EXCEPT !.failed = @ + 1,
                               !.tasks[t] = Outside(c.n, "raised", <<>>)])}
        ELSE
            {Release([s EXCEPT !.tasks[t] = Outside(c.n, "returned", s.agent)])}

\* what each step records
AgentCall(t, step) == [op |-> "get_or_create_agent", caller |-> t, step |-> step]
ResultOf(s, t) == [status |-> s.tasks[t].status, value |-> s.tasks[t].value]

CommitSingleton(t, step, s) ==
    /\ singleton' = s
    /\ call' = AgentCall(t, step)
    /\ result' = ResultOf(s, t)
    /\ trace' = <<>>
    /\ UNCHANGED <<questions_file, progress_file, conversation, inflight, database,
                   tenants>>

\* A task calls get_or_create_agent: it takes the free lock at once, or
\* queues behind the holder and the earlier waiters.
CallGetOrCreateAgent(t) ==
    LET c == singleton.tasks[t]
        s0 == [singleton EXCEPT !.tasks[t] = [c EXCEPT !.n = @ + 1,
                                                        !.status = "pending",
                                                        !.value = <<>>]]
    IN  /\ c.pc = "outside"
        /\ c.n < MaxCalls
        /\ IF ~singleton.locked /\ singleton.waiters = <<>> THEN
                \E s \in Enter(s0, t) : CommitSingleton(t, "enter", s)
           ELSE
                CommitSingleton(t, "wait",
                    [s0 EXCEPT !.waiters = Append(@, t),
                               !.tasks[t] = [s0.tasks[t] EXCEPT !.pc = "waiting"]])

\* The lock was released and the first waiter runs.
WakeUp(t) ==
    /\ ~singleton.locked
    /\ singleton.waiters # <<>>
    /\ Head(singleton.waiters) = t
    /\ \E s \in Enter([singleton EXCEPT !.waiters = Tail(@)], t) :
          CommitSingleton(t, "enter", s)

\* get_tools returns and the agent is created (301-305), or one of them
\* raises (308-313); either way the with-block is left.
EndGetTools(t) ==
    LET c == singleton.tasks[t]
    IN  /\ c.pc = "connecting"
        /\ \/ CommitSingleton(t, "built",
                 Release([singleton EXCEPT
                             !.agent = <<singleton.agents_made + 1>>,
                             !.agents_made = @ + 1,
                             !.tasks[t] = Outside(c.n, "returned",
                                                  <<singleton.agents_made + 1>>)]))
           \/ CommitSingleton(t, "failed",
                 Release([singleton EXCEPT
                             !.failed = @ + 1,
                             !.tasks[t] = Outside(c.n, "raised", <<>>)]))

NextSingleton ==
    \E t \in Callers :
        \/ CallGetOrCreateAgent(t)
        \/ WakeUp(t)
        \/ EndGetTools(t)

SpecSingleton == Init /\ [][NextSingleton]_vars

\* the call of task t has just raised
JustRaised(t) ==
    /\ call'.op = "get_or_create_agent"
    /\ call'.caller = t
    /\ result'.status = "raised"

\* C38: however many tasks call get_or_create_agent at once, one agent is
\* created at most and an MCP client is built only by the first call and by
\* calls that follow a failed one; every task that got an agent got that
\* one.  When a call raises, _agent is still None and the lock is free, and
\* the next task to hold the lock builds again.
C38_AgentBuiltOnce ==
    [][/\ singleton'.agents_made <= 1
       /\ singleton'.clients_made <= singleton'.failed + 1
       /\ \A t \in Callers :
            /\ singleton'.tasks[t].status = "returned"
                  => /\ singleton'.agent # <<>>
                     /\ singleton'.tasks[t].value = singleton'.agent
            /\ JustRaised(t)
                  => /\ singleton'.agent = <<>>
                     /\ ~singleton'.locked
            /\ (call'.op = "get_or_create_agent" /\ call'.caller = t
                  /\ call'.step = "enter" /\ singleton.agent = <<>>)
                  => \/ singleton'.tasks[t].pc = "connecting"
                     \/ result'.status = "raised"
      ]_vars

\* A construction failed, a later holder of the lock built the agent, and
\* all three tasks hold that agent.
C38_Witness ==
    /\ singleton.failed >= 1
    /\ singleton.clients_made >= 2
    /\ singleton.agents_made = 1
    /\ \A t \in Callers : /\ singleton.tasks[t].status = "returned"
                          /\ singleton.tasks[t].value = singleton.agent
    /\ ~singleton.locked
    /\ call.op = "get_or_create_agent"

=============================================================================
